---- MODULE Spec2Model ----
(***************************************************************************)
(* A model of aomirun/content-router: the router's route table, global     *)
(* middleware list and cached handler chain (router/router.go), the pooled *)
(* dispatch context (context package) and the buffer pool (buffer and      *)
(* manage packages).                                                       *)
(***************************************************************************)
EXTENDS Integers, Sequences, FiniteSets, TLC

VARIABLES
  routes,        \* routerImpl.routes: sequence of routeEntry
  middlewares,   \* routerImpl.middlewares: sequence of middleware ids
  handlerChain,  \* routerImpl.handlerChain: the cached composed handler
  dirty,         \* routerImpl.dirty
  pipelines,     \* routerImpl.pipelines: the pipelines created, each with its
                 \* matcher and its own middleware list
  ctxBorn,       \* contextImpl instances constructed so far by contextPool.New
  ctxIdle,       \* contextImpl instances sitting in contextPool
  ctxVals,       \* contextImpl.values of every instance
  ctxBuf,        \* contextImpl.buffer of every instance
  ctxParent,     \* contextImpl.Context (the embedded parent) of every instance
  ctxTouched,    \* history: instances on which some dispatch has called Set
  ctxMap,        \* the map object contextImpl.values refers to, named by the
                 \* instance it was made for (ctxVals holds its entries)
  ctxForkOf,     \* history: the instance a Fork copied this one from (0: none)
  last,          \* observation of the last router operation and its results
  gpc,           \* concurrent Route calls: each goroutine's position
  gloc,          \* concurrent Route calls: each goroutine's locals
  bufBorn,       \* bufferImpl instances constructed so far by the pool's New
  bufIdle,       \* bufferImpl instances sitting in poolImpl.pool
  bufData,       \* bufferImpl.data (the valid bytes) of every instance
  bufUsed,       \* history: bufferImpl instances some holder has written to
  ppc,           \* pool users: each goroutine's position
  pheld,         \* pool users: the buffer each goroutine holds (0: none)
  arrays,        \* byte arrays allocated: the storage behind []byte values
  views,         \* bufferImpl.data of buffers made by NewBuffer/Slice/Clone:
                 \* a slice header (array, offset, length, capacity)
  ctxDup,        \* contextImpl instances with a second entry in contextPool
  callerCtx      \* callers of NewContext: the instance each one's variable
                 \* refers to (0: none) and whether the caller still uses it

routerVars == <<routes, middlewares, handlerChain, dirty, pipelines>>
heapVars == <<arrays, views>>
ctxHeapVars == <<ctxMap, ctxForkOf>>
ctxVars == <<ctxBorn, ctxIdle, ctxVals, ctxBuf, ctxParent, ctxTouched, ctxMap,
             ctxForkOf>>
raceVars == <<gpc, gloc>>
aliasVars == <<ctxDup, callerCtx>>
poolVars == <<bufBorn, bufIdle, bufData, bufUsed, ppc, pheld, arrays, views>>
vars == <<routes, middlewares, handlerChain, dirty, pipelines, ctxBorn, ctxIdle, ctxVals,
          ctxBuf, ctxParent, ctxTouched, ctxMap, ctxForkOf, last, gpc, gloc,
          bufBorn, bufIdle, bufData, bufUsed, ppc, pheld, arrays, views,
          ctxDup, callerCtx>>

-----------------------------------------------------------------------------
(* Bounds of the model *)

\* Registrations (route entries plus middlewares) a setup makes at most.
MaxReg == 3
\* contextImpl instances contextPool.New constructs at most.
MaxCtx == 1

-----------------------------------------------------------------------------
(* Values *)

Nil == "nil"
NoErr == "nil"

\* Payload bytes are small integers; a payload is a sequence of bytes.
\* The calls of Route the callers make: the parent scope (Nil: a nil
\* context.Context; "cancelledCtx": a scope already cancelled), the reference
\* of the caller's buffer and the bytes the caller has written to it.
RouteArgs ==
  {[parent |-> Nil, buf |-> "bufA", data |-> <<1, 2>>],
   [parent |-> "reqCtx", buf |-> "bufA", data |-> <<2>>],
   [parent |-> "cancelledCtx", buf |-> "bufB", data |-> <<1>>],
   [parent |-> "reqCtx", buf |-> "bufB", data |-> <<>>]}

CtxIds == 1..MaxCtx

EmptyVals == [k \in {} |-> Nil]

-----------------------------------------------------------------------------
(* Matchers: router/handler.go PrefixMatcher, SuffixMatcher, ContainsMatcher *)
(* and the closure routerImpl.Match builds.                                  *)

HasPrefix(s, p) == Len(s) >= Len(p) /\ SubSeq(s, 1, Len(p)) = p

HasSuffix(s, p) == Len(s) >= Len(p) /\ SubSeq(s, Len(s) - Len(p) + 1, Len(s)) = p

Contains(s, p) == \E i \in 0..(Len(s) - Len(p)) : SubSeq(s, i + 1, i + Len(p)) = p

PrefixMatcher(prefix) == [kind |-> "prefix", pat |-> prefix]

SuffixMatcher(suffix) == [kind |-> "suffix", pat |-> suffix]

ContainsMatcher(substring) == [kind |-> "contains", pat |-> substring]

\* Mutant of MatchMatcher: the pattern is compared with the payload's end.
MatchMatcherSuffix(pattern) == [kind |-> "suffix", pat |-> pattern]

\* The matcher routerImpl.Match derives from its pattern string.
MatchMatcher(pattern) == [kind |-> "match", pat |-> pattern]

\* Mutant of MatcherMatch: every matcher looks for its pattern anywhere.
MatcherMatchAnywhere(m, data) == Len(data) >= Len(m.pat) /\ Contains(data, m.pat)

\* Matcher.Match(ctx) over data = ctx.Buffer().Get()
MatcherMatch(m, data) ==
  CASE m.kind = "prefix" -> Len(data) >= Len(m.pat) /\ HasPrefix(data, m.pat)
    [] m.kind = "suffix" -> Len(data) >= Len(m.pat) /\ HasSuffix(data, m.pat)
    [] m.kind = "contains" -> Len(data) >= Len(m.pat) /\ Contains(data, m.pat)
    [] m.kind = "match" -> Len(data) >= Len(m.pat) /\ HasPrefix(data, m.pat)

\* The matchers the setup phase registers with Register, and the patterns it
\* passes to Match.
RegMatchers == {ContainsMatcher(<<2>>)}

MatchPatterns == {<<1>>}

-----------------------------------------------------------------------------
(* Handlers and middlewares are the callers' functions.  The model has two  *)
(* handlers (one returns nil, one returns an error; both Set a key) and     *)
(* three middlewares: two that run before/after code around next and return *)
(* what next returned, and one that returns an error without calling next.  *)
(* For the dispatches that panic there are also a handler and a middleware  *)
(* that panic, and middleware.RecoveryMiddleware().                         *)

Handlers == {"h1", "h2"}

HandlerErr(h) == IF h = "h1" THEN NoErr ELSE "errH2"

Middlewares == {"mA", "mB", "mX"}

\* middleware.RecoveryMiddleware()
RecoveryMw == "mR"

\* The middlewares a pipeline is given: two call next, one returns an error.
PipeMws == {"pA", "pB", "pX"}

\* The handler that is "return pipeline.Handle(ctx)" for the pipeline the
\* first call of Router.Pipeline returned.
PipeHandler == "hL"

\* Mutant of CallsNext: every middleware calls next.
CallsNextAll(m) == TRUE

CallsNext(m) == m \in {"mA", "mB", RecoveryMw, "pA", "pB"}

\* The handler and the middleware whose body is a panic(...) statement.
Panics(f) == f \in {"hP", "mP"}

AbortErr == "errAbort"

Event(ev, i, id) == [ev |-> ev, i |-> i, id |-> id]

\* contextImpl.Set on a value store
SetVal(vals, key, value) ==
  [k \in (DOMAIN vals) \cup {key} |-> IF k = key THEN value ELSE vals[k]]

\* The dispatch state threaded through a chain: the events so far, the
\* context's value store, the error being returned, and whether a panic is
\* unwinding the stack instead of a return.
StartState(vals) == [trace |-> <<>>, vals |-> vals, err |-> NoErr, panic |-> FALSE]

\* A composed handler is the base handler or a closure over (middleware, next).
BaseFn == [kind |-> "base"]

WrapFn(m, next) == [kind |-> "wrap", mw |-> m, next |-> next]

\* The loop of buildHandlerChain: from the last middleware to the first.
RECURSIVE ComposeFrom(_, _, _)
ComposeFrom(mws, i, handler) ==
  IF i < 1 THEN handler
  ELSE ComposeFrom(mws, i - 1, WrapFn(mws[i], handler))

\* Mutant of Compose: the loop runs from the first middleware to the last, so
\* the last-registered middleware ends up outermost.
RECURSIVE ComposeUp(_, _, _)
ComposeUp(mws, i, handler) ==
  IF i > Len(mws) THEN handler
  ELSE ComposeUp(mws, i + 1, WrapFn(mws[i], handler))

ComposeForward(mws) == ComposeUp(mws, 1, BaseFn)

Compose(mws) == ComposeFrom(mws, Len(mws), BaseFn)

\* Mutant of PipelineCompose: the loop runs from the first middleware up.
PipelineComposeForward(mws) == ComposeUp(mws, 1, BaseFn)

\* The loop of pipelineImpl.Handle: from the last middleware to the first,
\* around the base handler; with no middleware, the base handler itself.
PipelineCompose(mws) == ComposeFrom(mws, Len(mws), BaseFn)

\* Calling the handler pipelineImpl.Handle composed; its base handler
\* returns nil.
RECURSIVE PipelineExec(_, _)
PipelineExec(fn, st) ==
  IF fn.kind = "base" THEN [st EXCEPT !.err = NoErr]
  ELSE LET before == [st EXCEPT !.trace = Append(@, Event("before", 0, fn.mw)),
                                !.vals = SetVal(@, fn.mw, "seen")]
       IN IF CallsNext(fn.mw)
          THEN [PipelineExec(fn.next, before)
                  EXCEPT !.trace = Append(@, Event("after", 0, fn.mw))]
          ELSE [before EXCEPT !.err = AbortErr]

\* pipelineImpl.Handle(ctx) of a pipeline whose list is mws
PipelineHandle(mws, st) == PipelineExec(PipelineCompose(mws), st)

\* A route handler called on the context (entry i of the route table).
RunHandler(h, i, st) ==
  IF Panics(h)
  THEN [st EXCEPT !.trace = Append(@, Event("handler", i, h)), !.panic = TRUE]
  ELSE IF h = PipeHandler
  THEN PipelineHandle(pipelines[1].middlewares,
                      [st EXCEPT !.trace = Append(@, Event("handler", i, h))])
  ELSE [trace |-> Append(st.trace, Event("handler", i, h)),
        vals |-> SetVal(st.vals, h, "seen"),
        err |-> HandlerErr(h),
        panic |-> FALSE]

RECURSIVE ScanRoutes(_, _, _, _)
ScanRoutes(rs, i, data, st) ==
  IF i > Len(rs)
  THEN [st EXCEPT !.err = NoErr]
  ELSE LET st1 == [st EXCEPT !.trace = Append(@, Event("match", i, rs[i].matcher.kind))]
       IN IF MatcherMatch(rs[i].matcher, data)
          THEN RunHandler(rs[i].handler, i, st1)
          ELSE ScanRoutes(rs, i + 1, data, st1)

\* Mutant of baseHandler: the loop does not return at the first match, so the
\* handler of every matching entry runs.
RECURSIVE ScanAllRoutes(_, _, _, _)
ScanAllRoutes(rs, i, data, st) ==
  IF i > Len(rs)
  THEN st
  ELSE LET st1 == [st EXCEPT !.trace = Append(@, Event("match", i, rs[i].matcher.kind))]
       IN IF MatcherMatch(rs[i].matcher, data)
          THEN ScanAllRoutes(rs, i + 1, data, RunHandler(rs[i].handler, i, st1))
          ELSE ScanAllRoutes(rs, i + 1, data, st1)

baseHandlerNoReturn(rs, data, st) == ScanAllRoutes(rs, 1, data, st)

\* Mutant of baseHandler: a payload no entry matches is reported as an error.
baseHandlerNoRouteErr(rs, data, st) ==
  LET res == ScanRoutes(rs, 1, data, st)
  IN IF \E i \in 1..Len(rs) : MatcherMatch(rs[i].matcher, data)
     THEN res
     ELSE [res EXCEPT !.err = "errNoRoute"]

\* baseHandler: the terminal handler; it reads r.routes when it is called.
baseHandler(rs, data, st) == ScanRoutes(rs, 1, data, st)

\* Mutant of Recover: the deferred function does not call recover().
RecoverNothing(inner) == inner

\* RecoveryMiddleware's deferred function, given how next(ctx) ended: a panic
\* is recovered and the middleware returns its result's zero value (nil);
\* otherwise what next returned is returned.
Recover(inner) ==
  IF inner.panic
  THEN [inner EXCEPT !.panic = FALSE, !.err = NoErr,
                     !.trace = Append(@, Event("recovered", 0, RecoveryMw))]
  ELSE inner

\* Calling a composed handler on a context whose buffer holds data.  A panic
\* in next skips the rest of the middlewares it unwinds through.
RECURSIVE Exec(_, _, _, _)
Exec(fn, rs, data, st) ==
  IF fn.kind = "base" THEN baseHandler(rs, data, st)
  ELSE IF fn.mw = RecoveryMw THEN Recover(Exec(fn.next, rs, data, st))
  ELSE LET before == [st EXCEPT !.trace = Append(@, Event("before", 0, fn.mw)),
                                !.vals = SetVal(@, fn.mw, "seen")]
       IN IF Panics(fn.mw) THEN [before EXCEPT !.panic = TRUE]
          ELSE IF CallsNext(fn.mw)
          THEN LET inner == Exec(fn.next, rs, data, before)
               IN IF inner.panic THEN inner
                  ELSE [inner EXCEPT !.trace = Append(@, Event("after", 0, fn.mw))]
          ELSE [before EXCEPT !.err = AbortErr]

-----------------------------------------------------------------------------
(* The cached chain: routerImpl.handlerChain is nil or a composed handler.  *)

NilChain == [set |-> FALSE, fn |-> BaseFn]

\* Mutant of NewChain: the chain is the route scan alone.
NewChainBare(mws) == [set |-> TRUE, fn |-> BaseFn]

NewChain(mws) == [set |-> TRUE, fn |-> Compose(mws)]

\* Mutant of buildHandlerChain: the cache is never consulted.
buildAlways(chain, isDirty, mws) ==
  [chain |-> NewChain(mws), dirty |-> FALSE, rebuilt |-> TRUE]

\* buildHandlerChain: the chain it returns and the router fields it leaves.
buildHandlerChain(chain, isDirty, mws) ==
  IF ~isDirty /\ chain.set
  THEN [chain |-> chain, dirty |-> isDirty, rebuilt |-> FALSE]
  ELSE [chain |-> NewChain(mws), dirty |-> FALSE, rebuilt |-> TRUE]

-----------------------------------------------------------------------------
(* The context pool: context package, contextPool / NewContext / Reset.     *)

\* Mutant of ClearValues: the entries are left in the map.
KeepValues(vals) == vals

\* The loop "for k := range values { delete(values, k) }".
ClearValues(vals) == EmptyVals

\* Mutant of PoolGetChoices: an instance that is in use may be returned too.
PoolGetHeldToo ==
  LET unborn == (DOMAIN ctxVals) \ ctxBorn
  IN ctxBorn \cup (IF unborn = {} THEN {}
                   ELSE {CHOOSE c \in unborn : \A d \in unborn : c <= d})

\* contextPool.Get(): an instance put back earlier, or a new one from New.
\* sync.Pool may also construct a new instance while others are idle.
PoolGetChoices ==
  LET unborn == (DOMAIN ctxVals) \ ctxBorn
  IN ctxIdle \cup (IF unborn = {} THEN {}
                   ELSE {CHOOSE c \in unborn : \A d \in unborn : c <= d})

ParentOrBackground(parent) == IF parent = Nil THEN "background" ELSE parent

\* Mutant of NewContext: the map of the instance taken is not cleared.
NewContextKeepsValues(parent, buf, vals) ==
  [parent |-> ParentOrBackground(parent), buf |-> buf, vals |-> vals]

\* Mutant of NewContext: the parent argument is dropped for the root scope.
NewContextBackground(parent, buf, vals) ==
  [parent |-> "background", buf |-> buf, vals |-> ClearValues(vals)]

\* NewContext(parent, buffer): the fields it leaves in the instance that
\* contextPool.Get() returned, whose map held vals.
NewContext(parent, buf, vals) ==
  [parent |-> ParentOrBackground(parent), buf |-> buf, vals |-> ClearValues(vals)]

\* Mutant of Reset: the buffer the context refers to is reset as well.
ResetWithBuffer(vals, data) ==
  [vals |-> ClearValues(vals), buf |-> Nil, parent |-> Nil, data |-> <<>>]

\* contextImpl.Reset before its Put: the fields it leaves in an instance whose
\* map held vals, and the bytes of the buffer the instance referred to (data
\* before the call).
Reset(vals, data) ==
  [vals |-> ClearValues(vals), buf |-> Nil, parent |-> Nil, data |-> data]

\* The embedded context.Context: Err() of a contextImpl is its parent's Err().
\* "cancelledCtx" is a parent scope that was cancelled before the call.
CtxErr(parent) == IF parent = "cancelledCtx" THEN "context canceled" ELSE NoErr

NoOp(op) ==
  [op |-> op, buf |-> Nil, data |-> <<>>, parent |-> Nil, ctx |-> 0,
   reused |-> FALSE, touchedBefore |-> FALSE, startVals |-> EmptyVals,
   seenBuf |-> Nil, seenParent |-> Nil, seenErr |-> NoErr, trace |-> <<>>,
   err |-> NoErr, retBuf |-> Nil, dataAfter |-> <<>>, rebuilt |-> FALSE,
   wasDirty |-> FALSE, wasSet |-> FALSE]

-----------------------------------------------------------------------------
(* Router operations: router/router.go *)

Register(matcher, handler) ==
  /\ Len(routes) + Len(middlewares) < MaxReg
  /\ routes' = Append(routes, [matcher |-> matcher, handler |-> handler])
  /\ dirty' = TRUE
  /\ last' = NoOp("Register")
  /\ UNCHANGED <<aliasVars, middlewares, handlerChain, ctxVars, raceVars, poolVars,
                 pipelines>>

Match(pattern, handler) ==
  /\ Len(routes) + Len(middlewares) < MaxReg
  /\ routes' = Append(routes, [matcher |-> MatchMatcher(pattern), handler |-> handler])
  /\ dirty' = TRUE
  /\ last' = NoOp("Match")
  /\ UNCHANGED <<aliasVars, middlewares, handlerChain, ctxVars, raceVars, poolVars,
                 pipelines>>

\* Mutant of Use: the middleware is appended and the dirty flag left alone.
UseKeepsFlag(ms) ==
  /\ Len(routes) + Len(middlewares) + Len(ms) <= MaxReg
  /\ middlewares' = middlewares \o ms
  /\ last' = NoOp("Use")
  /\ UNCHANGED <<aliasVars, routes, handlerChain, dirty, ctxVars, raceVars, poolVars,
                 pipelines>>

Use(ms) ==
  /\ Len(routes) + Len(middlewares) + Len(ms) <= MaxReg
  /\ middlewares' = middlewares \o ms
  /\ dirty' = TRUE
  /\ last' = NoOp("Use")
  /\ UNCHANGED <<aliasVars, routes, handlerChain, ctxVars, raceVars, poolVars,
                 pipelines>>

\* Mutant of RouteReturn: the buffer is read back from the context after Reset.
RouteReturnCtxBuf(buf, ctxBufAfter, err) == [buf |-> ctxBufAfter, err |-> err]

\* "return buffer, err": what Route hands back, given its buffer argument, the
\* context's buffer field after Reset and the chain's error.
RouteReturn(buf, ctxBufAfter, err) == [buf |-> buf, err |-> err]

\* Mutant of Route: a deferred contextPool.Put puts the context back as it is
\* when a panic unwinds through Route.
RoutePutsBackOnPanic(parent, buf, data) ==
  \E c \in PoolGetChoices :
    LET nc == NewContext(parent, buf, ctxVals[c])
        built == buildHandlerChain(handlerChain, dirty, middlewares)
        res == Exec(built.chain.fn, routes, data, StartState(nc.vals))
        rst == Reset(res.vals, data)
        ret == RouteReturn(buf, rst.buf, res.err)
        obs == [op |-> "Route", buf |-> buf, data |-> data, parent |-> parent,
                ctx |-> c, reused |-> c \in ctxIdle,
                touchedBefore |-> c \in ctxTouched,
                startVals |-> nc.vals, seenBuf |-> nc.buf,
                seenParent |-> nc.parent, seenErr |-> CtxErr(nc.parent),
                trace |-> res.trace, err |-> ret.err, retBuf |-> ret.buf,
                dataAfter |-> rst.data, rebuilt |-> built.rebuilt,
                wasDirty |-> dirty, wasSet |-> handlerChain.set]
    IN /\ handlerChain' = built.chain
       /\ dirty' = built.dirty
       /\ IF res.panic
          THEN /\ ctxBorn' = ctxBorn \cup {c}
               /\ ctxIdle' = ctxIdle \cup {c}
               /\ ctxVals' = [ctxVals EXCEPT ![c] = res.vals]
               /\ ctxBuf' = [ctxBuf EXCEPT ![c] = nc.buf]
               /\ ctxParent' = [ctxParent EXCEPT ![c] = nc.parent]
               /\ ctxTouched' = ctxTouched
               /\ last' = [obs EXCEPT !.op = "RoutePanic", !.err = NoErr,
                                      !.retBuf = Nil, !.dataAfter = data]
          ELSE /\ ctxBorn' = ctxBorn \cup {c}
               /\ ctxIdle' = ctxIdle \cup {c}
               /\ ctxVals' = [ctxVals EXCEPT ![c] = rst.vals]
               /\ ctxBuf' = [ctxBuf EXCEPT ![c] = rst.buf]
               /\ ctxParent' = [ctxParent EXCEPT ![c] = rst.parent]
               /\ ctxTouched' = IF DOMAIN res.vals # {} THEN ctxTouched \cup {c}
                                ELSE ctxTouched
               /\ last' = obs
       /\ UNCHANGED <<aliasVars, routes, middlewares, ctxHeapVars, raceVars, poolVars,
                 pipelines>>

\* Mutant of Route: composing the chain takes the middlewares off the list.
RouteConsumesMiddlewares(parent, buf, data) ==
  \E c \in PoolGetChoices :
    LET nc == NewContext(parent, buf, ctxVals[c])
        built == buildHandlerChain(handlerChain, dirty, middlewares)
        res == Exec(built.chain.fn, routes, data, StartState(nc.vals))
        rst == Reset(res.vals, data)
        ret == RouteReturn(buf, rst.buf, res.err)
        obs == [op |-> "Route", buf |-> buf, data |-> data, parent |-> parent,
                ctx |-> c, reused |-> c \in ctxIdle,
                touchedBefore |-> c \in ctxTouched,
                startVals |-> nc.vals, seenBuf |-> nc.buf,
                seenParent |-> nc.parent, seenErr |-> CtxErr(nc.parent),
                trace |-> res.trace, err |-> ret.err, retBuf |-> ret.buf,
                dataAfter |-> rst.data, rebuilt |-> built.rebuilt,
                wasDirty |-> dirty, wasSet |-> handlerChain.set]
    IN /\ handlerChain' = built.chain
       /\ dirty' = built.dirty
       /\ IF res.panic
          THEN /\ ctxBorn' = ctxBorn \ {c}
               /\ ctxIdle' = ctxIdle \ {c}
               /\ ctxVals' = [ctxVals EXCEPT ![c] = EmptyVals]
               /\ ctxBuf' = [ctxBuf EXCEPT ![c] = Nil]
               /\ ctxParent' = [ctxParent EXCEPT ![c] = Nil]
               /\ ctxTouched' = ctxTouched \ {c}
               /\ last' = [obs EXCEPT !.op = "RoutePanic", !.err = NoErr,
                                      !.retBuf = Nil, !.dataAfter = data]
          ELSE /\ ctxBorn' = ctxBorn \cup {c}
               /\ ctxIdle' = ctxIdle \cup {c}
               /\ ctxVals' = [ctxVals EXCEPT ![c] = rst.vals]
               /\ ctxBuf' = [ctxBuf EXCEPT ![c] = rst.buf]
               /\ ctxParent' = [ctxParent EXCEPT ![c] = rst.parent]
               /\ ctxTouched' = IF DOMAIN res.vals # {} THEN ctxTouched \cup {c}
                                ELSE ctxTouched
               /\ last' = obs
       /\ middlewares' = IF built.rebuilt THEN <<>> ELSE middlewares
       /\ UNCHANGED <<aliasVars, routes, ctxHeapVars, raceVars, poolVars,
                 pipelines>>

\* Route(ctx, buffer): NewContext, buildHandlerChain, the chain's run, Reset.
\* A panic the chain does not recover leaves Route at line 53: nothing is
\* returned and Reset is not reached, so the instance is never put back; it is
\* garbage once the stack is unwound, and its id stands for a new instance.
Route(parent, buf, data) ==
  \E c \in PoolGetChoices :
    LET nc == NewContext(parent, buf, ctxVals[c])
        built == buildHandlerChain(handlerChain, dirty, middlewares)
        res == Exec(built.chain.fn, routes, data, StartState(nc.vals))
        rst == Reset(res.vals, data)
        ret == RouteReturn(buf, rst.buf, res.err)
        obs == [op |-> "Route", buf |-> buf, data |-> data, parent |-> parent,
                ctx |-> c, reused |-> c \in ctxIdle,
                touchedBefore |-> c \in ctxTouched,
                startVals |-> nc.vals, seenBuf |-> nc.buf,
                seenParent |-> nc.parent, seenErr |-> CtxErr(nc.parent),
                trace |-> res.trace, err |-> ret.err, retBuf |-> ret.buf,
                dataAfter |-> rst.data, rebuilt |-> built.rebuilt,
                wasDirty |-> dirty, wasSet |-> handlerChain.set]
    IN /\ handlerChain' = built.chain
       /\ dirty' = built.dirty
       /\ IF res.panic
          THEN /\ ctxBorn' = ctxBorn \ {c}
               /\ ctxIdle' = ctxIdle \ {c}
               /\ ctxVals' = [ctxVals EXCEPT ![c] = EmptyVals]
               /\ ctxBuf' = [ctxBuf EXCEPT ![c] = Nil]
               /\ ctxParent' = [ctxParent EXCEPT ![c] = Nil]
               /\ ctxTouched' = ctxTouched \ {c}
               /\ last' = [obs EXCEPT !.op = "RoutePanic", !.err = NoErr,
                                      !.retBuf = Nil, !.dataAfter = data]
          ELSE /\ ctxBorn' = ctxBorn \cup {c}
               /\ ctxIdle' = ctxIdle \cup {c}
               /\ ctxVals' = [ctxVals EXCEPT ![c] = rst.vals]
               /\ ctxBuf' = [ctxBuf EXCEPT ![c] = rst.buf]
               /\ ctxParent' = [ctxParent EXCEPT ![c] = rst.parent]
               /\ ctxTouched' = IF DOMAIN res.vals # {} THEN ctxTouched \cup {c}
                                ELSE ctxTouched
               /\ last' = obs
       /\ UNCHANGED <<aliasVars, routes, middlewares, ctxHeapVars, raceVars, poolVars,
                 pipelines>>

-----------------------------------------------------------------------------
(* The single-threaded specification: any sequence of router calls. *)

InitRouter ==
  /\ routes = <<>>
  /\ middlewares = <<>>
  /\ handlerChain = NilChain
  /\ dirty = FALSE
  /\ pipelines = <<>>

\* The callers of the context package that hold a context in a variable.
Callers == {1, 2}

NoHandle == [ctx |-> 0, live |-> FALSE]

\* No caller keeps a context in a variable.
NoAlias ==
  /\ ctxDup = {}
  /\ callerCtx = [u \in Callers |-> NoHandle]

\* The context pool before any use, with room for the instances ids.
InitCtx(ids) ==
  /\ NoAlias
  /\ ctxBorn = {}
  /\ ctxIdle = {}
  /\ ctxVals = [c \in ids |-> EmptyVals]
  /\ ctxBuf = [c \in ids |-> Nil]
  /\ ctxParent = [c \in ids |-> Nil]
  /\ ctxTouched = {}
  /\ ctxMap = [c \in ids |-> c]
  /\ ctxForkOf = [c \in ids |-> 0]

NoRace ==
  /\ gpc = <<>>
  /\ gloc = <<>>

NoHeap ==
  /\ arrays = <<>>
  /\ views = <<>>

NoPool ==
  /\ NoHeap
  /\ bufBorn = {}
  /\ bufIdle = {}
  /\ bufData = <<>>
  /\ bufUsed = {}
  /\ ppc = <<>>
  /\ pheld = <<>>

Init ==
  /\ InitRouter
  /\ InitCtx(CtxIds)
  /\ NoRace
  /\ NoPool
  /\ last = NoOp("NewRouter")

\* The argument lists of Use (it is variadic: none, one or several).
MwArgs == {<<>>} \cup {<<m>> : m \in Middlewares} \cup {<<"mA", "mB">>, <<"mB", "mA">>}

Next ==
  \/ \E m \in RegMatchers, h \in Handlers : Register(m, h)
  \/ \E p \in MatchPatterns, h \in Handlers : Match(p, h)
  \/ \E ms \in MwArgs : Use(ms)
  \/ \E a \in RouteArgs : Route(a.parent, a.buf, a.data)

Spec == Init /\ [][Next]_vars

-----------------------------------------------------------------------------
(* Concurrent dispatch: after a single-threaded setup, goroutines call Route *)
(* on the same router.  Route takes no lock, so each read and write of the   *)
(* router's fields is a step of its own; contextPool (a sync.Pool) is safe   *)
(* for concurrent use, so taking and putting a context is one step.          *)

\* Goroutines calling Route concurrently.
NumG == 2

Gs == 1..NumG

\* The setups of the concurrent runs.
RaceRoutes == {<<>>, <<[matcher |-> MatchMatcher(<<1>>), handler |-> "h2"]>>}

RaceMws == {<<>>, <<"mA">>}

RaceArgs == {a \in RouteArgs : a.buf = "bufA"}

IdleG == [ctx |-> 0, buf |-> Nil, data |-> <<>>, handler |-> BaseFn, err |-> NoErr]

\* The router as a setup phase leaves it: after its registrations (dirty as
\* soon as there was one), or after a first single-threaded Route as well.
InitRace ==
  /\ routes \in RaceRoutes
  /\ middlewares \in RaceMws
  /\ \/ /\ handlerChain = NilChain
        /\ dirty = (Len(routes) + Len(middlewares) > 0)
     \/ /\ handlerChain = NewChain(middlewares)
        /\ dirty = FALSE
  /\ pipelines = <<>>
  /\ InitCtx(Gs)
  /\ gpc = [g \in Gs |-> "start"]
  /\ gloc = [g \in Gs |-> IdleG]
  /\ last = NoOp("setup")
  /\ NoPool

\* Route, line 47: routerCtx := NewContext(ctx, buffer)
RouteNewContext(g, parent, buf, data) ==
  /\ gpc[g] = "start"
  /\ \E c \in PoolGetChoices :
       /\ ctxBorn' = ctxBorn \cup {c}
       /\ ctxIdle' = ctxIdle \ {c}
       /\ ctxVals' = [ctxVals EXCEPT ![c] = ClearValues(@)]
       /\ ctxBuf' = [ctxBuf EXCEPT ![c] = buf]
       /\ ctxParent' = [ctxParent EXCEPT ![c] = ParentOrBackground(parent)]
       /\ gloc' = [gloc EXCEPT ![g] = [IdleG EXCEPT !.ctx = c, !.buf = buf, !.data = data]]
  /\ gpc' = [gpc EXCEPT ![g] = "readDirty"]
  /\ UNCHANGED <<aliasVars, routerVars, ctxTouched, ctxHeapVars, last, poolVars>>

\* buildHandlerChain, line 66: the read of r.dirty
ReadDirty(g) ==
  /\ gpc[g] = "readDirty"
  /\ gpc' = [gpc EXCEPT ![g] = IF dirty THEN "compose" ELSE "readChain"]
  /\ UNCHANGED <<aliasVars, routerVars, ctxVars, gloc, last, poolVars>>

\* buildHandlerChain, line 66: the read of r.handlerChain for the nil test
ReadChain(g) ==
  /\ gpc[g] = "readChain"
  /\ gpc' = [gpc EXCEPT ![g] = IF handlerChain.set THEN "loadChain" ELSE "compose"]
  /\ UNCHANGED <<aliasVars, routerVars, ctxVars, gloc, last, poolVars>>

\* buildHandlerChain, line 67: return r.handlerChain
LoadChain(g) ==
  /\ gpc[g] = "loadChain"
  /\ gloc' = [gloc EXCEPT ![g].handler = handlerChain.fn]
  /\ gpc' = [gpc EXCEPT ![g] = "exec"]
  /\ UNCHANGED <<aliasVars, routerVars, ctxVars, last, poolVars>>

\* buildHandlerChain, lines 71-96: the chain composed in locals
ComposeChain(g) ==
  /\ gpc[g] = "compose"
  /\ gloc' = [gloc EXCEPT ![g].handler = Compose(middlewares)]
  /\ gpc' = [gpc EXCEPT ![g] = "storeChain"]
  /\ UNCHANGED <<aliasVars, routerVars, ctxVars, last, poolVars>>

\* buildHandlerChain, line 83 or 99: r.handlerChain = handler
StoreChain(g) ==
  /\ gpc[g] = "storeChain"
  /\ handlerChain' = [set |-> TRUE, fn |-> gloc[g].handler]
  /\ gpc' = [gpc EXCEPT ![g] = "storeDirty"]
  /\ UNCHANGED <<aliasVars, routes, middlewares, dirty, ctxVars, gloc, last, poolVars,
                 pipelines>>

\* buildHandlerChain, line 84 or 100: r.dirty = false
StoreDirty(g) ==
  /\ gpc[g] = "storeDirty"
  /\ dirty' = FALSE
  /\ gpc' = [gpc EXCEPT ![g] = "exec"]
  /\ UNCHANGED <<aliasVars, routes, middlewares, handlerChain, ctxVars, gloc, last, poolVars,
                 pipelines>>

\* Route, line 53: err := handler(routerCtx)
ExecChain(g) ==
  /\ gpc[g] = "exec"
  /\ LET c == gloc[g].ctx
         res == Exec(gloc[g].handler, routes, gloc[g].data, StartState(ctxVals[c]))
     IN /\ ctxVals' = [ctxVals EXCEPT ![c] = res.vals]
        /\ ctxTouched' = IF DOMAIN res.vals # {} THEN ctxTouched \cup {c} ELSE ctxTouched
        /\ gloc' = [gloc EXCEPT ![g].err = res.err]
  /\ gpc' = [gpc EXCEPT ![g] = "reset"]
  /\ UNCHANGED <<aliasVars, routerVars, ctxBorn, ctxIdle, ctxBuf, ctxParent, ctxHeapVars, last,
                 poolVars>>

\* Route, lines 56-60: the context's Reset (which puts it back), and the return
ResetAndReturn(g) ==
  /\ gpc[g] = "reset"
  /\ LET c == gloc[g].ctx
     IN /\ ctxVals' = [ctxVals EXCEPT ![c] = ClearValues(@)]
        /\ ctxBuf' = [ctxBuf EXCEPT ![c] = Nil]
        /\ ctxParent' = [ctxParent EXCEPT ![c] = Nil]
        /\ ctxIdle' = ctxIdle \cup {c}
  /\ gloc' = [gloc EXCEPT ![g] = IdleG]
  /\ gpc' = [gpc EXCEPT ![g] = "start"]
  /\ UNCHANGED <<aliasVars, routerVars, ctxBorn, ctxTouched, ctxHeapVars, last, poolVars>>

NextRace ==
  \/ \E g \in Gs, a \in RaceArgs : RouteNewContext(g, a.parent, a.buf, a.data)
  \/ \E g \in Gs : ReadDirty(g)
  \/ \E g \in Gs : ReadChain(g)
  \/ \E g \in Gs : LoadChain(g)
  \/ \E g \in Gs : ComposeChain(g)
  \/ \E g \in Gs : StoreChain(g)
  \/ \E g \in Gs : StoreDirty(g)
  \/ \E g \in Gs : ExecChain(g)
  \/ \E g \in Gs : ResetAndReturn(g)

SpecRace == InitRace /\ [][NextRace]_vars

-----------------------------------------------------------------------------
(* The buffer pool: buffer package poolImpl / NewPool, and the BufferManager *)
(* of package manage that wraps it.  Goroutines acquire a buffer, write to   *)
(* it and release it, through the pool or through the manager.  poolImpl's   *)
(* sync.Pool is safe for concurrent use: its Get and its Put are one step    *)
(* each; the Reset calls of a Release are steps of the releasing goroutine.  *)

\* Goroutines using the pool.
NumP == 2

\* Bytes a buffer holds at most in the model.
MaxLen == 2

Ps == 1..NumP

BufIds == 1..NumP

\* The byte strings the holders write.
WriteArgs == {<<1>>, <<1, 2>>}

\* bufferImpl.Write / WriteString: append
BufWrite(data, p) == data \o p

\* bufferImpl.Reset: data[:0]
BufReset(data) == <<>>

InitPool ==
  /\ InitRouter
  /\ InitCtx(CtxIds)
  /\ NoRace
  /\ last = NoOp("NewPool")
  /\ bufBorn = {}
  /\ bufIdle = {}
  /\ bufData = [b \in BufIds |-> <<>>]
  /\ bufUsed = {}
  /\ ppc = [p \in Ps |-> "idle"]
  /\ pheld = [p \in Ps |-> 0]
  /\ NoHeap

\* Mutant of SyncPoolPut: nil is stored like any object.
SyncPoolPutAny(idle, obj) == idle \cup {obj}

\* sync.Pool.Put(x): if x == nil { return }; obj 0 is the nil Buffer.
SyncPoolPut(idle, obj) == IF obj = 0 THEN idle ELSE idle \cup {obj}

\* Mutant of BufGetChoices: Get hands out idle instances only.
BufGetIdleOnly == bufIdle

\* sync.Pool.Get with New set: an instance put back earlier, or NewBuffer().
BufGetChoices ==
  LET unborn == BufIds \ bufBorn
  IN bufIdle \cup (IF unborn = {} THEN {}
                   ELSE {CHOOSE b \in unborn : \A d \in unborn : b <= d})

\* Mutant of Acquire: the instance handed out stays in the idle set.
AcquireLeavesIdle(p) ==
  /\ ppc[p] = "idle"
  /\ \E b \in BufGetChoices :
       /\ bufBorn' = bufBorn \cup {b}
       /\ bufIdle' = bufIdle \cup {b}
       /\ pheld' = [pheld EXCEPT ![p] = b]
  /\ ppc' = [ppc EXCEPT ![p] = "acquired"]
  /\ UNCHANGED <<aliasVars, routerVars, ctxVars, raceVars, last, bufData, bufUsed,
                 heapVars>>

\* poolImpl.Acquire, and bufferManagerImpl.Acquire which only forwards to it
Acquire(p) ==
  /\ ppc[p] = "idle"
  /\ \E b \in BufGetChoices :
       /\ bufBorn' = bufBorn \cup {b}
       /\ bufIdle' = bufIdle \ {b}
       /\ pheld' = [pheld EXCEPT ![p] = b]
  /\ ppc' = [ppc EXCEPT ![p] = "acquired"]
  /\ UNCHANGED <<aliasVars, routerVars, ctxVars, raceVars, last, bufData, bufUsed,
                 heapVars>>

\* The holder writes to its buffer.
Write(p, bytes) ==
  /\ ppc[p] \in {"acquired", "writing"}
  /\ Len(bufData[pheld[p]]) + Len(bytes) <= MaxLen
  /\ bufData' = [bufData EXCEPT ![pheld[p]] = BufWrite(@, bytes)]
  /\ bufUsed' = bufUsed \cup {pheld[p]}
  /\ ppc' = [ppc EXCEPT ![p] = "writing"]
  /\ UNCHANGED <<aliasVars, routerVars, ctxVars, raceVars, last, bufBorn, bufIdle, pheld,
                 heapVars>>

\* bufferManagerImpl.Release, line 27: buf.Reset(); pool.Release follows
ManagerRelease(p) ==
  /\ ppc[p] \in {"acquired", "writing"}
  /\ bufData' = [bufData EXCEPT ![pheld[p]] = BufReset(@)]
  /\ ppc' = [ppc EXCEPT ![p] = "poolRelease"]
  /\ UNCHANGED <<aliasVars, routerVars, ctxVars, raceVars, last, bufBorn, bufIdle, bufUsed, pheld,
                 heapVars>>

\* Mutant of PoolRelease: the object is not reset before it is put back.
PoolReleaseNoReset(p) ==
  /\ ppc[p] \in {"acquired", "writing", "poolRelease"}
  /\ ppc' = [ppc EXCEPT ![p] = "put"]
  /\ UNCHANGED <<aliasVars, routerVars, ctxVars, raceVars, last, bufBorn, bufIdle, bufData,
                 bufUsed, pheld,
                 heapVars>>

\* poolImpl.Release, lines 55-57: the object is Mutable, so it is Reset
PoolRelease(p) ==
  /\ ppc[p] \in {"acquired", "writing", "poolRelease"}
  /\ bufData' = [bufData EXCEPT ![pheld[p]] = BufReset(@)]
  /\ ppc' = [ppc EXCEPT ![p] = "put"]
  /\ UNCHANGED <<aliasVars, routerVars, ctxVars, raceVars, last, bufBorn, bufIdle, bufUsed, pheld,
                 heapVars>>

\* poolImpl.Release, line 58: p.pool.Put(obj); the holder drops its reference
PoolPut(p) ==
  /\ ppc[p] = "put"
  /\ bufIdle' = SyncPoolPut(bufIdle, pheld[p])
  /\ pheld' = [pheld EXCEPT ![p] = 0]
  /\ ppc' = [ppc EXCEPT ![p] = "idle"]
  /\ UNCHANGED <<aliasVars, routerVars, ctxVars, raceVars, last, bufBorn, bufData, bufUsed,
                 heapVars>>

\* pool.Release(nil) by a goroutine that holds nothing: the assertion
\* interface{}(obj).(Mutable) fails on the nil interface, so nothing is
\* reset, and p.pool.Put(nil) follows.
ReleaseNil(p) ==
  /\ ppc[p] = "idle"
  /\ bufIdle' = SyncPoolPut(bufIdle, 0)
  /\ last' = NoOp("ReleaseNil")
  /\ UNCHANGED <<aliasVars, routerVars, ctxVars, raceVars, bufBorn, bufData, bufUsed, ppc,
                 pheld, heapVars>>

\* A method called through a nil interface value (obj 0) is a nil
\* dereference: the call panics before the method's body runs.
NilCallPanics(obj) == obj = 0

\* bufferManagerImpl.Release(nil) by a goroutine that holds nothing: line 27,
\* buf.Reset(), comes before the pool is reached.
ManagerReleaseNil(p) ==
  /\ ppc[p] = "idle"
  /\ IF NilCallPanics(0)
     THEN /\ last' = NoOp("ManagerReleasePanic")
          /\ UNCHANGED bufIdle
     ELSE /\ last' = NoOp("ManagerReleaseNil")
          /\ bufIdle' = SyncPoolPut(bufIdle, 0)
  /\ UNCHANGED <<aliasVars, routerVars, ctxVars, raceVars, bufBorn, bufData, bufUsed, ppc,
                 pheld, heapVars>>

NextPool ==
  \/ \E p \in Ps : Acquire(p)
  \/ \E p \in Ps, bytes \in WriteArgs : Write(p, bytes)
  \/ \E p \in Ps : ManagerRelease(p)
  \/ \E p \in Ps : PoolRelease(p)
  \/ \E p \in Ps : PoolPut(p)
  \/ \E p \in Ps : ReleaseNil(p)
  \/ \E p \in Ps : ManagerReleaseNil(p)

SpecPool == InitPool /\ [][NextPool]_vars

-----------------------------------------------------------------------------
(* The context package used directly: NewContext, Set, Delete, Reset, Fork   *)
(* and ForkWithBuffer on contextImpl instances, and contextPool.Put on an    *)
(* instance that still holds entries.  An instance is held by a caller       *)
(* (born, not idle), idle in contextPool, or not constructed.  Fork and      *)
(* ForkWithBuffer construct their result themselves, not through the pool.   *)

\* The instances of these runs: one more than the pool constructs in Spec, so
\* that a context and its fork exist together.
CtxObjs == 1..(MaxCtx + 1)

CtxKeys == {"k"}

CtxValues == {"v1", "v2"}

CtxBufs == {"bufA", "bufB"}

\* The calls of NewContext the callers make (Nil: a nil parent).
NewContextArgs ==
  {[parent |-> Nil, buf |-> "bufA"], [parent |-> "reqCtx", buf |-> "bufB"]}

\* contextImpl.values as the instance sees it: the entries of the map object
\* its field refers to.
Values(c) == ctxVals[ctxMap[c]]

Held == ctxBorn \ ctxIdle

\* Mutant of DelVal: the entry stays.
DelValKeeps(vals, key) == vals

\* delete(c.values, key)
DelVal(vals, key) == [k \in (DOMAIN vals) \ {key} |-> vals[k]]

\* An instance no goroutine has constructed yet (the lowest such id).
NewObjChoices ==
  LET unborn == (DOMAIN ctxVals) \ ctxBorn
  IN IF unborn = {} THEN {} ELSE {CHOOSE c \in unborn : \A d \in unborn : c <= d}

CtxOp(op, c, child, parent, buf, key) ==
  [op |-> op, ctx |-> c, child |-> child, parent |-> parent, buf |-> buf,
   key |-> key, hadEntries |-> FALSE]

InitContexts ==
  /\ InitRouter
  /\ InitCtx(CtxObjs)
  /\ NoRace
  /\ NoPool
  /\ last = CtxOp("init", 0, 0, Nil, Nil, Nil)

\* NewContext(parent, buffer), called by a user of the context package
CallNewContext(parent, buf) ==
  \E c \in PoolGetChoices :
    LET nc == NewContext(parent, buf, Values(c))
    IN /\ ctxBorn' = ctxBorn \cup {c}
       /\ ctxIdle' = ctxIdle \ {c}
       /\ ctxVals' = [ctxVals EXCEPT ![ctxMap[c]] = nc.vals]
       /\ ctxBuf' = [ctxBuf EXCEPT ![c] = nc.buf]
       /\ ctxParent' = [ctxParent EXCEPT ![c] = nc.parent]
       /\ ctxForkOf' = [ctxForkOf EXCEPT ![c] = 0]
       /\ last' = [CtxOp("NewContext", c, 0, parent, buf, Nil)
                     EXCEPT !.hadEntries = (c \in ctxIdle /\ DOMAIN Values(c) # {})]
       /\ UNCHANGED <<aliasVars, routerVars, ctxTouched, ctxMap, raceVars, poolVars>>

\* contextImpl.Set(key, value)
Set(c, key, value) ==
  /\ c \in Held
  /\ ctxVals' = [ctxVals EXCEPT ![ctxMap[c]] = SetVal(@, key, value)]
  /\ last' = CtxOp("Set", c, 0, Nil, Nil, key)
  /\ UNCHANGED <<aliasVars, routerVars, ctxBorn, ctxIdle, ctxBuf, ctxParent, ctxTouched,
                 ctxHeapVars, raceVars, poolVars>>

\* contextImpl.Delete(key)
Delete(c, key) ==
  /\ c \in Held
  /\ ctxVals' = [ctxVals EXCEPT ![ctxMap[c]] = DelVal(@, key)]
  /\ last' = CtxOp("Delete", c, 0, Nil, Nil, key)
  /\ UNCHANGED <<aliasVars, routerVars, ctxBorn, ctxIdle, ctxBuf, ctxParent, ctxTouched,
                 ctxHeapVars, raceVars, poolVars>>

\* contextImpl.Reset(): the fields are cleared and the instance is put back.
\* The buffers of these runs hold no bytes.
CallReset(c) ==
  /\ c \in Held
  /\ LET rst == Reset(Values(c), <<>>)
     IN /\ ctxVals' = [ctxVals EXCEPT ![ctxMap[c]] = rst.vals]
        /\ ctxBuf' = [ctxBuf EXCEPT ![c] = rst.buf]
        /\ ctxParent' = [ctxParent EXCEPT ![c] = rst.parent]
  /\ ctxIdle' = ctxIdle \cup {c}
  /\ last' = CtxOp("Reset", c, 0, Nil, Nil, Nil)
  /\ UNCHANGED <<aliasVars, routerVars, ctxBorn, ctxTouched, ctxHeapVars, raceVars, poolVars>>

\* contextPool.Put(c) on an instance as it is, entries included.
ContextPoolPut(c) ==
  /\ c \in Held
  /\ ctxIdle' = ctxIdle \cup {c}
  /\ last' = CtxOp("Put", c, 0, Nil, Nil, Nil)
  /\ UNCHANGED <<aliasVars, routerVars, ctxBorn, ctxVals, ctxBuf, ctxParent, ctxTouched,
                 ctxHeapVars, raceVars, poolVars>>

\* Mutant of Fork: the child's values field refers to the receiver's map.
ForkSharesMap(c) ==
  /\ c \in Held
  /\ \E d \in NewObjChoices :
       /\ ctxBorn' = ctxBorn \cup {d}
       /\ ctxMap' = [ctxMap EXCEPT ![d] = ctxMap[c]]
       /\ ctxBuf' = [ctxBuf EXCEPT ![d] = ctxBuf[c]]
       /\ ctxParent' = [ctxParent EXCEPT ![d] = ctxParent[c]]
       /\ ctxForkOf' = [ctxForkOf EXCEPT ![d] = c]
       /\ last' = CtxOp("Fork", c, d, Nil, Nil, Nil)
  /\ UNCHANGED <<aliasVars, routerVars, ctxIdle, ctxVals, ctxTouched, raceVars, poolVars>>

\* contextImpl.Fork(): a new instance with a new map holding a copy of the
\* receiver's entries, the receiver's parent scope and the receiver's buffer.
Fork(c) ==
  /\ c \in Held
  /\ \E d \in NewObjChoices :
       /\ ctxBorn' = ctxBorn \cup {d}
       /\ ctxMap' = [ctxMap EXCEPT ![d] = d]
       /\ ctxVals' = [ctxVals EXCEPT ![d] = Values(c)]
       /\ ctxBuf' = [ctxBuf EXCEPT ![d] = ctxBuf[c]]
       /\ ctxParent' = [ctxParent EXCEPT ![d] = ctxParent[c]]
       /\ ctxForkOf' = [ctxForkOf EXCEPT ![d] = c]
       /\ last' = CtxOp("Fork", c, d, Nil, Nil, Nil)
  /\ UNCHANGED <<aliasVars, routerVars, ctxIdle, ctxTouched, raceVars, poolVars>>

\* Mutant of ForkWithBuffer: the child keeps the receiver's buffer.
ForkWithBufferIgnored(c, buf) ==
  /\ c \in Held
  /\ \E d \in NewObjChoices :
       /\ ctxBorn' = ctxBorn \cup {d}
       /\ ctxMap' = [ctxMap EXCEPT ![d] = d]
       /\ ctxVals' = [ctxVals EXCEPT ![d] = Values(c)]
       /\ ctxBuf' = [ctxBuf EXCEPT ![d] = ctxBuf[c]]
       /\ ctxParent' = [ctxParent EXCEPT ![d] = ctxParent[c]]
       /\ ctxForkOf' = [ctxForkOf EXCEPT ![d] = c]
       /\ last' = CtxOp("ForkWithBuffer", c, d, Nil, buf, Nil)
  /\ UNCHANGED <<aliasVars, routerVars, ctxIdle, ctxTouched, raceVars, poolVars>>

\* Mutant of ForkWithBuffer: the child's values field refers to the
\* receiver's map.
ForkWithBufferSharesMap(c, buf) ==
  /\ c \in Held
  /\ \E d \in NewObjChoices :
       /\ ctxBorn' = ctxBorn \cup {d}
       /\ ctxMap' = [ctxMap EXCEPT ![d] = ctxMap[c]]
       /\ ctxBuf' = [ctxBuf EXCEPT ![d] = buf]
       /\ ctxParent' = [ctxParent EXCEPT ![d] = ctxParent[c]]
       /\ ctxForkOf' = [ctxForkOf EXCEPT ![d] = c]
       /\ last' = CtxOp("ForkWithBuffer", c, d, Nil, buf, Nil)
  /\ UNCHANGED <<aliasVars, routerVars, ctxIdle, ctxVals, ctxTouched, raceVars, poolVars>>

\* contextImpl.ForkWithBuffer(buf): as Fork, with buf for the buffer.
ForkWithBuffer(c, buf) ==
  /\ c \in Held
  /\ \E d \in NewObjChoices :
       /\ ctxBorn' = ctxBorn \cup {d}
       /\ ctxMap' = [ctxMap EXCEPT ![d] = d]
       /\ ctxVals' = [ctxVals EXCEPT ![d] = Values(c)]
       /\ ctxBuf' = [ctxBuf EXCEPT ![d] = buf]
       /\ ctxParent' = [ctxParent EXCEPT ![d] = ctxParent[c]]
       /\ ctxForkOf' = [ctxForkOf EXCEPT ![d] = c]
       /\ last' = CtxOp("ForkWithBuffer", c, d, Nil, buf, Nil)
  /\ UNCHANGED <<aliasVars, routerVars, ctxIdle, ctxTouched, raceVars, poolVars>>

\* The garbage collector: an instance no caller refers to any more, or an idle
\* one sync.Pool drops, is gone; its id stands for a new instance.
Drop(c) ==
  /\ c \in ctxBorn
  /\ ctxBorn' = ctxBorn \ {c}
  /\ ctxIdle' = ctxIdle \ {c}
  /\ ctxVals' = [ctxVals EXCEPT ![c] = EmptyVals]
  /\ ctxBuf' = [ctxBuf EXCEPT ![c] = Nil]
  /\ ctxParent' = [ctxParent EXCEPT ![c] = Nil]
  /\ ctxMap' = [ctxMap EXCEPT ![c] = c]
  /\ ctxForkOf' = [d \in DOMAIN ctxForkOf |->
                     IF d = c \/ ctxForkOf[d] = c THEN 0 ELSE ctxForkOf[d]]
  /\ last' = CtxOp("Drop", c, 0, Nil, Nil, Nil)
  /\ UNCHANGED <<aliasVars, routerVars, ctxTouched, raceVars, poolVars>>

NextContexts ==
  \/ \E a \in NewContextArgs : CallNewContext(a.parent, a.buf)
  \/ \E c \in CtxObjs, k \in CtxKeys, v \in CtxValues : Set(c, k, v)
  \/ \E c \in CtxObjs, k \in CtxKeys : Delete(c, k)
  \/ \E c \in CtxObjs : CallReset(c)
  \/ \E c \in CtxObjs : ContextPoolPut(c)
  \/ \E c \in CtxObjs : Fork(c)
  \/ \E c \in CtxObjs, buf \in CtxBufs : ForkWithBuffer(c, buf)
  \/ \E c \in CtxObjs : Drop(c)

SpecContexts == InitContexts /\ [][NextContexts]_vars

-----------------------------------------------------------------------------
(* Callers that keep the context NewContext returned in a variable and call   *)
(* Set and Reset through it.  Reset has no condition: it clears the instance  *)
(* and puts it into contextPool on every call, also on a second call through  *)
(* the same variable, so contextPool is a multiset of instances.  ctxIdle is  *)
(* the set of instances with an entry in it, ctxDup those with a second one.  *)

\* contextPool.Get() returning c: one entry of c leaves the pool.
PoolAfterGet(c) ==
  IF c \in ctxDup THEN [idle |-> ctxIdle, dup |-> ctxDup \ {c}]
  ELSE [idle |-> ctxIdle \ {c}, dup |-> ctxDup]

\* contextPool.Put(c): one more entry of c.
PoolAfterPut(c) ==
  IF c \in ctxIdle THEN [idle |-> ctxIdle, dup |-> ctxDup \cup {c}]
  ELSE [idle |-> ctxIdle \cup {c}, dup |-> ctxDup]

\* u's "c := NewContext(parent, buf)", made when u uses no context.
CallerNewContext(u, parent, buf) ==
  /\ ~callerCtx[u].live
  /\ \E c \in PoolGetChoices :
       LET nc == NewContext(parent, buf, Values(c))
           got == PoolAfterGet(c)
       IN /\ ctxBorn' = ctxBorn \cup {c}
          /\ ctxIdle' = got.idle
          /\ ctxDup' = got.dup
          /\ ctxVals' = [ctxVals EXCEPT ![ctxMap[c]] = nc.vals]
          /\ ctxBuf' = [ctxBuf EXCEPT ![c] = nc.buf]
          /\ ctxParent' = [ctxParent EXCEPT ![c] = nc.parent]
          /\ callerCtx' = [callerCtx EXCEPT ![u] = [ctx |-> c, live |-> TRUE]]
          /\ last' = CtxOp("NewContext", c, 0, parent, buf, Nil)
  /\ UNCHANGED <<routerVars, ctxTouched, ctxHeapVars, raceVars, poolVars>>

\* u's "c.Set(key, value)" on the context it uses.
CallerSet(u, key, value) ==
  /\ callerCtx[u].live
  /\ ctxVals' = [ctxVals EXCEPT ![ctxMap[callerCtx[u].ctx]] = SetVal(@, key, value)]
  /\ last' = CtxOp("Set", callerCtx[u].ctx, 0, Nil, Nil, key)
  /\ UNCHANGED <<routerVars, ctxBorn, ctxIdle, ctxBuf, ctxParent, ctxTouched,
                 ctxHeapVars, raceVars, poolVars, aliasVars>>

\* u's "c.Reset()" through its variable, whether or not it has reset the
\* context before.  No instance gets a third entry in the pool.
CallerReset(u) ==
  /\ callerCtx[u].ctx # 0
  /\ callerCtx[u].ctx \notin ctxDup
  /\ LET c == callerCtx[u].ctx
         rst == Reset(Values(c), <<>>)
         put == PoolAfterPut(c)
     IN /\ ctxVals' = [ctxVals EXCEPT ![ctxMap[c]] = rst.vals]
        /\ ctxBuf' = [ctxBuf EXCEPT ![c] = rst.buf]
        /\ ctxParent' = [ctxParent EXCEPT ![c] = rst.parent]
        /\ ctxIdle' = put.idle
        /\ ctxDup' = put.dup
        /\ callerCtx' = [callerCtx EXCEPT ![u] = [ctx |-> c, live |-> FALSE]]
        /\ last' = CtxOp("Reset", c, 0, Nil, Nil, Nil)
  /\ UNCHANGED <<routerVars, ctxBorn, ctxTouched, ctxHeapVars, raceVars, poolVars>>

NextAlias ==
  \/ \E u \in Callers, a \in NewContextArgs : CallerNewContext(u, a.parent, a.buf)
  \/ \E u \in Callers, k \in CtxKeys, v \in CtxValues : CallerSet(u, k, v)
  \/ \E u \in Callers : CallerReset(u)
  \/ \E a \in NewContextArgs : Route(a.parent, a.buf, <<>>)

SpecAlias == InitContexts /\ [][NextAlias]_vars

-----------------------------------------------------------------------------
(* Nested dispatch: a route handler that Sets values on its context and calls *)
(* Route on the same router with a payload of another route, one goroutine.   *)
(* The outer Route is at line 53 while its handler runs: the handler is       *)
(* caller 1 of the context package, and the nested Route runs from its first  *)
(* line to its last inside the handler.  The router has no global middleware, *)
(* so the chain is the route scan.                                            *)

\* The handler whose body calls ctx.Set and r.Route.
NestHandler == "hN"

NestRoutes ==
  <<[matcher |-> MatchMatcher(<<1>>), handler |-> NestHandler],
    [matcher |-> MatchMatcher(<<2>>), handler |-> "h1"]>>

\* The handler Route(ctx, buffer) ends up calling for a payload (Nil: none).
Dispatched(data) ==
  LET hits == {i \in 1..Len(routes) : MatcherMatch(routes[i].matcher, data)}
  IN IF hits = {} THEN Nil
     ELSE routes[CHOOSE i \in hits : \A j \in hits : i <= j].handler

InitNested ==
  /\ routes = NestRoutes
  /\ middlewares = <<>>
  /\ handlerChain = NilChain
  /\ dirty = TRUE
  /\ pipelines = <<>>
  /\ InitCtx(CtxObjs)
  /\ NoRace
  /\ NoPool
  /\ last = NoOp("setup")

\* Route, lines 47-53, for a payload of the nesting handler: NewContext,
\* buildHandlerChain, and the scan down to the call of the handler.
RouteEnter(parent, buf, data) ==
  /\ ~callerCtx[1].live
  /\ middlewares = <<>>
  /\ Dispatched(data) = NestHandler
  /\ \E c \in PoolGetChoices :
       LET nc == NewContext(parent, buf, ctxVals[c])
           built == buildHandlerChain(handlerChain, dirty, middlewares)
       IN /\ handlerChain' = built.chain
          /\ dirty' = built.dirty
          /\ ctxBorn' = ctxBorn \cup {c}
          /\ ctxIdle' = ctxIdle \ {c}
          /\ ctxVals' = [ctxVals EXCEPT ![c] = nc.vals]
          /\ ctxBuf' = [ctxBuf EXCEPT ![c] = nc.buf]
          /\ ctxParent' = [ctxParent EXCEPT ![c] = nc.parent]
          /\ callerCtx' = [callerCtx EXCEPT ![1] = [ctx |-> c, live |-> TRUE]]
          /\ last' = [NoOp("RouteEnter") EXCEPT !.ctx = c, !.buf = buf,
                                                !.parent = parent, !.data = data]
  /\ UNCHANGED <<routes, middlewares, pipelines, ctxTouched, ctxHeapVars, ctxDup,
                 raceVars, poolVars>>

\* The handler's "r.Route(ctx, other)": a whole Route inside the handler, for
\* a payload that is not dispatched to the nesting handler again.
NestedRoute(parent, buf, data) ==
  /\ callerCtx[1].live
  /\ Dispatched(data) # NestHandler
  /\ Route(parent, buf, data)

\* The handler returns nil; Route, lines 53-60: Reset and the return.
RouteLeave ==
  /\ callerCtx[1].live
  /\ LET c == callerCtx[1].ctx
         rst == Reset(ctxVals[c], <<>>)
     IN /\ ctxVals' = [ctxVals EXCEPT ![c] = rst.vals]
        /\ ctxBuf' = [ctxBuf EXCEPT ![c] = rst.buf]
        /\ ctxParent' = [ctxParent EXCEPT ![c] = rst.parent]
        /\ ctxIdle' = ctxIdle \cup {c}
        /\ ctxTouched' = IF DOMAIN ctxVals[c] # {} THEN ctxTouched \cup {c}
                         ELSE ctxTouched
        /\ last' = [NoOp("RouteLeave") EXCEPT !.ctx = c]
  /\ callerCtx' = [callerCtx EXCEPT ![1] = NoHandle]
  /\ UNCHANGED <<routerVars, ctxBorn, ctxHeapVars, ctxDup, raceVars, poolVars>>

NextNested ==
  \/ \E a \in RouteArgs : RouteEnter(a.parent, a.buf, a.data)
  \/ \E k \in CtxKeys, v \in CtxValues : CallerSet(1, k, v)
  \/ \E a \in RouteArgs : NestedRoute(a.parent, a.buf, a.data)
  \/ RouteLeave

SpecNested == InitNested /\ [][NextNested]_vars

-----------------------------------------------------------------------------
(* The value store and its typed getters: one context from NewContext, with *)
(* keys and values of several Go types.  A value is its dynamic type and a  *)
(* content, 0 being the content of the type's zero value.                   *)

StoreTypes == {"string", "int", "int64", "bool", "float64", "[]byte", "time.Time"}

TypedValue(type, v) == [type |-> type, v |-> v]

\* The nil interface value: what Get returns for a missing key.
NilValue == TypedValue(Nil, 0)

\* The zero value a typed getter returns with ok = false.
ZeroValue(type) == TypedValue(type, 0)

\* A key of slice type: the program compiles with it (keys are interface{})
\* but a map cannot hash it.
SliceKey == "[]byte key"

StoreKeys == {"k1", "k2"}

\* The values stored: one of every type, the empty string and nil.
StoreValues ==
  {TypedValue(t, 1) : t \in StoreTypes} \cup {ZeroValue("string"), NilValue}

\* Map access hashes the key; the runtime panics on a key of slice, map or
\* function type.
Hashable(key) == key # SliceKey

\* c.values[key]: the stored value, or nil for a missing key
GetVal(vals, key) == IF key \in DOMAIN vals THEN vals[key] ELSE NilValue

\* Mutant of TypedGet: any stored value passes the type assertion.
TypedGetAnyType(vals, type, key) ==
  IF key \in DOMAIN vals
  THEN [v |-> GetVal(vals, key), ok |-> TRUE]
  ELSE [v |-> ZeroValue(type), ok |-> FALSE]

\* GetString .. GetTime: val := c.Get(key); if x, ok := val.(T); ok { return
\* x, true }; return zero, false
TypedGet(vals, type, key) ==
  IF GetVal(vals, key).type = type
  THEN [v |-> GetVal(vals, key), ok |-> TRUE]
  ELSE [v |-> ZeroValue(type), ok |-> FALSE]

\* for k := range c.values { keys = append(keys, k) }: the keys in any order
KeyOrders(vals) ==
  {seq \in [1..Cardinality(DOMAIN vals) -> DOMAIN vals] :
     \A i \in DOMAIN seq, j \in DOMAIN seq : seq[i] = seq[j] => i = j}

StoreObs(op, key, type, res, ok, keys, panicked) ==
  [op |-> op, key |-> key, type |-> type, res |-> res, ok |-> ok, keys |-> keys,
   panicked |-> panicked]

\* ctx := NewContext(nil, nil)
InitStore ==
  /\ InitRouter
  /\ NoAlias
  /\ NoRace
  /\ NoPool
  /\ ctxBorn = {1}
  /\ ctxIdle = {}
  /\ ctxVals = [c \in CtxIds |-> NewContext(Nil, Nil, EmptyVals).vals]
  /\ ctxBuf = [c \in CtxIds |-> NewContext(Nil, Nil, EmptyVals).buf]
  /\ ctxParent = [c \in CtxIds |-> NewContext(Nil, Nil, EmptyVals).parent]
  /\ ctxTouched = {}
  /\ ctxMap = [c \in CtxIds |-> c]
  /\ ctxForkOf = [c \in CtxIds |-> 0]
  /\ last = StoreObs("NewContext", Nil, Nil, NilValue, FALSE, <<>>, FALSE)

StoreFrame == UNCHANGED <<aliasVars, routerVars, ctxVars, raceVars, poolVars>>

\* contextImpl.Get(key)
CallGet(c, key) ==
  /\ c \in Held
  /\ last' = IF Hashable(key)
             THEN StoreObs("Get", key, Nil, GetVal(Values(c), key), FALSE, <<>>, FALSE)
             ELSE StoreObs("Get", key, Nil, NilValue, FALSE, <<>>, TRUE)
  /\ StoreFrame

\* contextImpl.GetString, GetInt, GetInt64, GetBool, GetFloat64, GetBytes,
\* GetTime: type names the getter.  Get panics on an unhashable key.
CallTypedGet(c, type, key) ==
  /\ c \in Held
  /\ last' = IF Hashable(key)
             THEN StoreObs("GetT", key, type, TypedGet(Values(c), type, key).v,
                           TypedGet(Values(c), type, key).ok, <<>>, FALSE)
             ELSE StoreObs("GetT", key, type, NilValue, FALSE, <<>>, TRUE)
  /\ StoreFrame

\* contextImpl.Keys()
CallKeys(c) ==
  /\ c \in Held
  /\ \E keys \in KeyOrders(Values(c)) :
       last' = StoreObs("Keys", Nil, Nil, NilValue, FALSE, keys, FALSE)
  /\ StoreFrame

NextStore ==
  \/ \E key \in StoreKeys, value \in StoreValues : Set(1, key, value)
  \/ \E key \in StoreKeys : Delete(1, key)
  \/ \E key \in StoreKeys \cup {SliceKey} : CallGet(1, key)
  \/ \E type \in StoreTypes, key \in StoreKeys \cup {SliceKey} :
       CallTypedGet(1, type, key)
  \/ CallKeys(1)

SpecStore == InitStore /\ [][NextStore]_vars

-----------------------------------------------------------------------------
(* Dispatches that panic: the single-threaded router with a handler that     *)
(* panics, a middleware that panics and middleware.RecoveryMiddleware().     *)

PanicHandlers == {"h1", "h2", "hP"}

PanicMwArgs == {<<RecoveryMw>>, <<"mA">>, <<"mP">>}

PanicRouteArgs == {a \in RouteArgs : a.buf = "bufA"}

NextPanic ==
  \/ \E p \in MatchPatterns, h \in PanicHandlers : Match(p, h)
  \/ \E ms \in PanicMwArgs : Use(ms)
  \/ \E a \in PanicRouteArgs : Route(a.parent, a.buf, a.data)

SpecPanic == Init /\ [][NextPanic]_vars

-----------------------------------------------------------------------------
(* Pipelines: routerImpl.Pipeline and pipelineImpl.  A pipeline is an entry  *)
(* of r.pipelines with its own middleware list; the caller runs it with      *)
(* Handle, directly or from a route handler.                                 *)

\* The calls of Register, Use, Pipeline and pipeline Use made so far (one
\* middleware per Use).
RECURSIVE PipelineMwCount(_)
PipelineMwCount(ps) ==
  IF ps = <<>> THEN 0 ELSE Len(Head(ps).middlewares) + PipelineMwCount(Tail(ps))

SetupCalls ==
  Len(routes) + Len(middlewares) + Len(pipelines) + PipelineMwCount(pipelines)

\* Router.Pipeline(matcher)
Pipeline(matcher) ==
  /\ SetupCalls < MaxReg
  /\ pipelines' = Append(pipelines, [matcher |-> matcher, middlewares |-> <<>>])
  /\ last' = NoOp("Pipeline")
  /\ UNCHANGED <<aliasVars, routes, middlewares, handlerChain, dirty, ctxVars, raceVars,
                 poolVars>>

\* Mutant of PipelineUse: the middleware is also registered with the router.
PipelineUseGlobal(p, ms) ==
  /\ p \in DOMAIN pipelines
  /\ SetupCalls + Len(ms) <= MaxReg
  /\ pipelines' = [pipelines EXCEPT ![p].middlewares = @ \o ms]
  /\ middlewares' = middlewares \o ms
  /\ dirty' = TRUE
  /\ last' = NoOp("PipelineUse")
  /\ UNCHANGED <<aliasVars, routes, handlerChain, ctxVars, raceVars, poolVars>>

\* pipelineImpl.Use(middleware...)
PipelineUse(p, ms) ==
  /\ p \in DOMAIN pipelines
  /\ SetupCalls + Len(ms) <= MaxReg
  /\ pipelines' = [pipelines EXCEPT ![p].middlewares = @ \o ms]
  /\ last' = NoOp("PipelineUse")
  /\ UNCHANGED <<aliasVars, routes, middlewares, handlerChain, dirty, ctxVars, raceVars,
                 poolVars>>

\* The payloads of the contexts Handle is called on: one that the matcher
\* given to Router.Pipeline does not match, and one that it matches.
HandlePayloads == {<<1>>, <<2>>}

\* Mutant of Handle: the middlewares run only if the matcher the pipeline
\* was created with matches the context's payload.
HandleIfMatch(p, data) ==
  /\ p \in DOMAIN pipelines
  /\ LET res == IF MatcherMatch(pipelines[p].matcher, data)
                THEN PipelineHandle(pipelines[p].middlewares, StartState(EmptyVals))
                ELSE StartState(EmptyVals)
     IN last' = [NoOp("Handle") EXCEPT !.ctx = p, !.data = data,
                                       !.trace = res.trace, !.err = res.err]
  /\ UNCHANGED <<aliasVars, routerVars, ctxVars, raceVars, poolVars>>

\* pipeline.Handle(ctx), called on a context the caller made, whose buffer
\* holds data
Handle(p, data) ==
  /\ p \in DOMAIN pipelines
  /\ LET res == PipelineHandle(pipelines[p].middlewares, StartState(EmptyVals))
     IN last' = [NoOp("Handle") EXCEPT !.ctx = p, !.data = data,
                                       !.trace = res.trace, !.err = res.err]
  /\ UNCHANGED <<aliasVars, routerVars, ctxVars, raceVars, poolVars>>

\* Register(matcher, func(ctx) error { return pipeline.Handle(ctx) }), for
\* the pipeline the first Pipeline call returned.
RegisterPipeHandler(matcher) ==
  /\ Len(pipelines) >= 1
  /\ SetupCalls < MaxReg
  /\ Register(matcher, PipeHandler)

PipeRouteArgs == {a \in RouteArgs : a.buf = "bufA"}

NextPipeline ==
  \/ \E m \in RegMatchers : Pipeline(m)
  \/ \E p \in 1..MaxReg, m \in PipeMws : PipelineUse(p, <<m>>)
  \/ \E p \in 1..MaxReg, d \in HandlePayloads : Handle(p, d)
  \/ \E m \in RegMatchers : SetupCalls < MaxReg /\ Register(m, "h1")
  \/ \E m \in RegMatchers : RegisterPipeHandler(m)
  \/ SetupCalls < MaxReg /\ Use(<<"mA">>)
  \/ \E a \in PipeRouteArgs : Route(a.parent, a.buf, a.data)

SpecPipeline == Init /\ [][NextPipeline]_vars

-----------------------------------------------------------------------------
(* Routes registered with Match: a router whose table is built by Match only *)
(* and has no middleware.  A pattern is the byte string []byte(pattern); the *)
(* patterns include the tagged forms the doc comment of RouteRegistrar.Match *)
(* lists, written out as their bytes.                                        *)

\* []byte("/prefix/")
TagPrefix == <<47, 112, 114, 101, 102, 105, 120, 47>>

\* []byte("/suffix/")
TagSuffix == <<47, 115, 117, 102, 102, 105, 120, 47>>

\* []byte("/contains/")
TagContains == <<47, 99, 111, 110, 116, 97, 105, 110, 115, 47>>

DslPatterns ==
  {<<1>>, <<1, 2>>, TagPrefix \o <<1>>, TagSuffix \o <<1>>, TagContains \o <<1>>}

\* The payloads routed: short ones, and one that spells a tagged pattern out.
MatchPayloads ==
  {<<>>, <<1>>, <<2, 1>>, <<1, 2, 1>>, TagSuffix \o <<1, 2>>}

NextMatch ==
  \/ \E pattern \in DslPatterns : Match(pattern, "h1")
  \/ \E data \in MatchPayloads : Route(Nil, "bufA", data)

SpecMatch == Init /\ [][NextMatch]_vars

-----------------------------------------------------------------------------
(* The matchers on their own: one context is held, with some entries in its  *)
(* value store and a buffer holding a payload; a caller evaluates matchers   *)
(* on it (Matcher.Match(ctx)) and appends to the buffer in between.          *)

\* The byte strings over a two-letter alphabet, up to MaxLen bytes.
ByteSeqs == UNION {[1..n -> {1, 2}] : n \in 0..MaxLen}

\* The built-in matchers and the matcher Match derives, for every pattern.
AllMatchers ==
  UNION {{PrefixMatcher(p), SuffixMatcher(p), ContainsMatcher(p), MatchMatcher(p)} :
           p \in ByteSeqs}

MatchObs(op, m, data, result, again) ==
  [op |-> op, ctx |-> 1, matcher |-> m, data |-> data, result |-> result,
   again |-> again]

InitMatchers ==
  /\ InitRouter
  /\ NoAlias
  /\ ctxBorn = {1}
  /\ ctxIdle = {}
  /\ ctxVals \in {[c \in {1} |-> EmptyVals], [c \in {1} |-> SetVal(EmptyVals, "k", "v1")]}
  /\ ctxBuf = [c \in {1} |-> "bufA"]
  /\ ctxParent = [c \in {1} |-> "background"]
  /\ ctxTouched = {}
  /\ ctxMap = [c \in {1} |-> c]
  /\ ctxForkOf = [c \in {1} |-> 0]
  /\ NoRace
  /\ bufBorn = {}
  /\ bufIdle = {}
  /\ bufData \in {[b \in {"bufA"} |-> d] : d \in ByteSeqs}
  /\ bufUsed = {}
  /\ ppc = <<>>
  /\ pheld = <<>>
  /\ NoHeap
  /\ last = MatchObs("init", PrefixMatcher(<<>>), <<>>, FALSE, FALSE)

\* Mutant of MatcherEval: the evaluation consumes the bytes it has read.
MatcherEvalConsumes(c, m) ==
  LET data == bufData[ctxBuf[c]]
  IN /\ last' = MatchObs("Match", m, data, MatcherMatch(m, data),
                         last.op = "Match" /\ last.matcher = m)
     /\ bufData' = [bufData EXCEPT ![ctxBuf[c]] = <<>>]
     /\ UNCHANGED <<aliasVars, routerVars, ctxVars, raceVars, bufBorn, bufIdle, bufUsed, ppc, pheld,
                 heapVars>>

\* m.Match(ctx): data := ctx.Buffer().Get() and the comparison on it.
MatcherEval(c, m) ==
  LET data == bufData[ctxBuf[c]]
  IN /\ last' = MatchObs("Match", m, data, MatcherMatch(m, data),
                         last.op = "Match" /\ last.matcher = m)
     /\ UNCHANGED <<aliasVars, routerVars, ctxVars, raceVars, poolVars>>

\* The holder appends to the context's buffer: ctx.Buffer().Write(bytes).
BufferWrite(c, bytes) ==
  /\ Len(bufData[ctxBuf[c]]) + Len(bytes) <= MaxLen
  /\ bufData' = [bufData EXCEPT ![ctxBuf[c]] = BufWrite(@, bytes)]
  /\ last' = MatchObs("Write", PrefixMatcher(<<>>), <<>>, FALSE, FALSE)
  /\ UNCHANGED <<aliasVars, routerVars, ctxVars, raceVars, bufBorn, bufIdle, bufUsed, ppc, pheld,
                 heapVars>>

NextMatchers ==
  \/ \E m \in AllMatchers : MatcherEval(1, m)
  \/ \E bytes \in {<<1>>, <<2>>} : BufferWrite(1, bytes)

SpecMatchers == InitMatchers /\ [][NextMatchers]_vars

-----------------------------------------------------------------------------
(* Buffers and their storage: buffer package bufferImpl.  A []byte is a     *)
(* slice header (array, offset, length, capacity) over a byte array; Slice  *)
(* makes a second header over the same array, Clone a new array.  One       *)
(* caller works on a buffer from NewBuffer() and on the buffer it last      *)
(* sliced or cloned from it; an earlier slice or clone is dropped.          *)

\* The capacity NewBuffer allocates (1024 in the code, scaled to the model).
InitCap == 1

\* The byte strings written, and the arguments of Truncate and Slice.
ViewWriteArgs(b) == IF b = 1 THEN {<<1>>, <<2>>} ELSE {<<3>>}

IndexArgs == (0 - 1)..(MaxLen + 1)

Max(a, b) == IF a >= b THEN a ELSE b

\* make([]byte, n): an array of n zero bytes
ZeroArray(n) == [i \in 1..n |-> 0]

\* b.data as a byte string: the cells of its array the header covers.
Bytes(v) == SubSeq(arrays[v.arr], v.off + 1, v.off + v.len)

\* A slice header; from and cloneOf are history: the buffer it was sliced
\* from (while that one has only been appended to since, and the slice not
\* written to) and cloned from.
View(arr, off, len, cap) ==
  [arr |-> arr, off |-> off, len |-> len, cap |-> cap, from |-> 0, cloneOf |-> 0]

\* The capacity append allocates when the bytes do not fit.
GrowCap(cap, need) == Max(2 * cap, need)

\* Mutant of TruncateView: the length is set to n whatever the old length.
TruncateViewAlways(v, n) == [v EXCEPT !.len = n]

\* Truncate(n) for n >= 0: if n < len(b.data) { b.data = b.data[:n] }
TruncateView(v, n) == IF n < v.len THEN [v EXCEPT !.len = n] ELSE v

\* Mutant of SliceView: the view starts where the source starts.
SliceViewFromStart(v, start, end) ==
  [View(v.arr, v.off, end - start, v.cap) EXCEPT !.from = 0]

\* b.data[start:end] for 0 <= start <= end <= cap(b.data)
SliceView(v, start, end) == View(v.arr, v.off + start, end - start, v.cap - start)

BufObs(op, b, res, a, e, panicked) ==
  [op |-> op, b |-> b, res |-> res, a |-> a, e |-> e, panicked |-> panicked]

\* The caller's buffers: the one from NewBuffer() and the derived one.
ViewIds == {1, 2}

\* The arrays: one more id than there are buffers, so that append always
\* finds room for its new array.
ArrIds == {1, 2, 3}

\* The garbage collector: an array no buffer's slice refers to is gone (its id
\* is free and holds nothing).
Collect(arrs, vs) ==
  [i \in DOMAIN arrs |-> IF \E y \in DOMAIN vs : vs[y].arr = i THEN arrs[i] ELSE <<>>]

\* The id a new array gets.
FreeArr == CHOOSE i \in ArrIds : /\ \A y \in DOMAIN views : views[y].arr # i
                                 /\ \A j \in ArrIds : (\A y \in DOMAIN views : views[y].arr # j) => i <= j

\* NewBuffer(): the caller's first buffer, not yet written to.
InitBuffers ==
  /\ InitRouter
  /\ InitCtx(CtxIds)
  /\ NoRace
  /\ bufBorn = {}
  /\ bufIdle = {}
  /\ bufData = <<>>
  /\ bufUsed = {}
  /\ ppc = <<>>
  /\ pheld = <<>>
  /\ arrays = [i \in ArrIds |-> IF i = 1 THEN ZeroArray(InitCap) ELSE <<>>]
  /\ views = <<View(1, 0, 0, InitCap)>>
  /\ last = BufObs("NewBuffer", 0, 1, 0, 0, FALSE)

BufFrame == UNCHANGED <<aliasVars, routerVars, ctxVars, raceVars, bufBorn, bufIdle, bufData,
                        bufUsed, ppc, pheld>>

\* The slices of b that stay views of source bytes: they lose that standing
\* when b is shortened below their end.
KeepFrom(b, newLen) ==
  [y \in DOMAIN views |->
     IF views[y].from = b /\ (views[y].off - views[b].off) + views[y].len > newLen
     THEN [views[y] EXCEPT !.from = 0] ELSE views[y]]

\* Write(p) / WriteString(s): b.data = append(b.data, p...), in place when
\* the capacity allows, into a new array otherwise.
ViewWrite(b, bytes) ==
  /\ b \in DOMAIN views
  /\ views[b].len + Len(bytes) <= MaxLen
  /\ LET v == views[b]
         n == v.len + Len(bytes)
         inPlace == [arrays EXCEPT ![v.arr] =
                       [i \in 1..Len(@) |->
                          IF i > v.off + v.len /\ i <= v.off + n
                          THEN bytes[i - v.off - v.len] ELSE @[i]]]
         moved == [views EXCEPT ![b].arr = FreeArr, ![b].off = 0, ![b].len = n,
                                ![b].cap = GrowCap(v.cap, n), ![b].from = 0]
     IN IF n <= v.cap
        THEN /\ arrays' = inPlace
             /\ views' = [views EXCEPT ![b].len = n, ![b].from = 0]
        ELSE /\ arrays' = Collect([arrays EXCEPT ![FreeArr] =
                                     Bytes(v) \o bytes \o ZeroArray(GrowCap(v.cap, n) - n)],
                                  moved)
             /\ views' = moved
  /\ last' = BufObs("Write", b, 0, 0, 0, FALSE)
  /\ BufFrame

\* Reset(): b.data = b.data[:0]
ViewReset(b) ==
  /\ b \in DOMAIN views
  /\ views' = [KeepFrom(b, 0) EXCEPT ![b].len = 0]
  /\ last' = BufObs("Reset", b, 0, 0, 0, FALSE)
  /\ UNCHANGED arrays
  /\ BufFrame

\* Truncate(n).  b.data[:n] with a negative n panics (slice bounds out of
\* range) and leaves the buffer as it was.
Truncate(b, n) ==
  /\ b \in DOMAIN views
  /\ IF n < views[b].len /\ n < 0
     THEN /\ UNCHANGED views
          /\ last' = BufObs("Truncate", b, 0, n, views[b].len, TRUE)
     ELSE /\ views' = [KeepFrom(b, TruncateView(views[b], n).len)
                         EXCEPT ![b] = TruncateView(views[b], n)]
          /\ last' = BufObs("Truncate", b, 0, n, views[b].len, FALSE)
  /\ UNCHANGED arrays
  /\ BufFrame

\* Slice(start, end): a new bufferImpl over b.data[start:end]; the slice
\* expression panics unless 0 <= start <= end <= cap(b.data).
Slice(b, start, end) ==
  /\ b \in DOMAIN views
  /\ IF 0 <= start /\ start <= end /\ end <= views[b].cap
     THEN /\ views' = <<views[b], [SliceView(views[b], start, end) EXCEPT
                                     !.from = IF end <= views[b].len THEN b ELSE 0]>>
          /\ arrays' = Collect(arrays, views')
          /\ last' = BufObs("Slice", b, 2, start, end, FALSE)
     ELSE /\ UNCHANGED <<aliasVars, views, arrays>>
          /\ last' = BufObs("Slice", b, 0, 0, 0, TRUE)
  /\ BufFrame

\* Mutant of Clone: the new buffer's data is the receiver's slice itself.
CloneShares(b) ==
  /\ b \in DOMAIN views
  /\ views' = <<views[b], [View(views[b].arr, views[b].off, views[b].len, views[b].len)
                            EXCEPT !.cloneOf = b]>>
  /\ arrays' = Collect(arrays, views')
  /\ last' = BufObs("Clone", b, 2, 0, 0, FALSE)
  /\ BufFrame

\* Clone(): make([]byte, len(b.data)), copy, a new bufferImpl over it
Clone(b) ==
  /\ b \in DOMAIN views
  /\ views' = <<views[b], [View(FreeArr, 0, views[b].len, views[b].len)
                            EXCEPT !.cloneOf = b]>>
  /\ arrays' = Collect([arrays EXCEPT ![FreeArr] = Bytes(views[b])], views')
  /\ last' = BufObs("Clone", b, 2, 0, 0, FALSE)
  /\ BufFrame

\* The caller writes to, resets and truncates its buffer.
NextTruncate ==
  \/ \E bytes \in ViewWriteArgs(1) \cup ViewWriteArgs(2) : ViewWrite(1, bytes)
  \/ ViewReset(1)
  \/ \E n \in IndexArgs : Truncate(1, n)

SpecTruncate == InitBuffers /\ [][NextTruncate]_vars

\* The caller slices its buffer, writes to the buffer and to the slice, and
\* resets the buffer.
NextSlices ==
  \/ \E b \in ViewIds : \E bytes \in ViewWriteArgs(b) : ViewWrite(b, bytes)
  \/ ViewReset(1)
  \/ \E start \in 0..MaxLen, end \in 0..(MaxLen + 1) : Slice(1, start, end)

SpecSlices == InitBuffers /\ [][NextSlices]_vars

\* The caller clones its buffer and writes to, resets and truncates the
\* buffer and the clone.
NextClones ==
  \/ \E b \in ViewIds : \E bytes \in ViewWriteArgs(b) : ViewWrite(b, bytes)
  \/ \E b \in ViewIds : ViewReset(b)
  \/ \E b \in ViewIds, n \in 0..MaxLen : Truncate(b, n)
  \/ Clone(1)

SpecClones == InitBuffers /\ [][NextClones]_vars

-----------------------------------------------------------------------------
(* Properties of the single-threaded router (checked under Spec) *)

IsRoute == last.op = "Route"

Matching(rs, data) == {i \in 1..Len(rs) : MatcherMatch(rs[i].matcher, data)}

\* The first entry, in registration order, whose matcher matches; 0 if none.
FirstMatch(rs, data) ==
  IF Matching(rs, data) = {} THEN 0
  ELSE CHOOSE i \in Matching(rs, data) : \A j \in Matching(rs, data) : i <= j

EventsOf(trace, kinds) == SelectSeq(trace, LAMBDA e : e.ev \in kinds)

AllCallNext == \A i \in 1..Len(middlewares) : CallsNext(middlewares[i])

\* The events a route scan that stops at entry k leaves: the matchers of
\* entries 1..k in order, then entry k's handler.
ScanEvents(rs, k) ==
  [i \in 1..k |-> Event("match", i, rs[i].matcher.kind)]
    \o <<Event("handler", k, rs[k].handler)>>

\* C1 as stated: for every route table and payload, Route invokes the handler
\* of the first matching entry, no other handler, and evaluates no matcher
\* registered after the first match.
C1_FirstMatchAlwaysInvoked ==
  (IsRoute /\ FirstMatch(routes, last.data) > 0)
    => EventsOf(last.trace, {"match", "handler"})
         = ScanEvents(routes, FirstMatch(routes, last.data))

\* C1 amended: Route never invokes a handler other than that of the first
\* matching entry, never evaluates a matcher registered after the first match,
\* and invokes the first matching entry's handler whenever every global
\* middleware calls next.
C1_FirstMatchWins ==
  IsRoute =>
    LET k == FirstMatch(routes, last.data)
        scan == EventsOf(last.trace, {"match", "handler"})
    IN /\ \A n \in 1..Len(scan) :
            /\ scan[n].ev = "handler" => (k > 0 /\ scan[n] = Event("handler", k, routes[k].handler))
            /\ scan[n].ev = "match" => (scan[n].i = n /\ (k > 0 => n <= k))
       /\ Len(EventsOf(last.trace, {"handler"})) <= 1
       /\ (k > 0 /\ AllCallNext) => scan = ScanEvents(routes, k)

\* Two entries match the payload and the first one's handler ran alone.
C1_Witness ==
  /\ IsRoute
  /\ Cardinality(Matching(routes, last.data)) >= 2
  /\ FirstMatch(routes, last.data) = 1
  /\ routes[1].handler # routes[2].handler
  /\ EventsOf(last.trace, {"handler"}) = <<Event("handler", 1, routes[1].handler)>>

\* C2: with middlewares M1..Mn registered in that order, each calling next
\* once, a Route whose payload matches handler H runs M1-before, ...,
\* Mn-before, H, Mn-after, ..., M1-after in exactly that order.
C2_OnionOrder ==
  (IsRoute /\ AllCallNext /\ FirstMatch(routes, last.data) > 0) =>
    LET n == Len(middlewares)
        k == FirstMatch(routes, last.data)
    IN EventsOf(last.trace, {"before", "handler", "after"})
         = [i \in 1..n |-> Event("before", 0, middlewares[i])]
             \o <<Event("handler", k, routes[k].handler)>>
             \o [i \in 1..n |-> Event("after", 0, middlewares[n + 1 - i])]

\* Two different middlewares wrapped a handler that ran.
C2_Witness ==
  /\ IsRoute
  /\ AllCallNext
  /\ Len(middlewares) = 2
  /\ middlewares[1] # middlewares[2]
  /\ Len(EventsOf(last.trace, {"handler"})) = 1

\* C3: every Route runs a chain equivalent to one freshly composed from the
\* router's current middleware list and route table: its events and its error
\* are those of the fresh chain.
C3_ChainNeverStale ==
  IsRoute =>
    LET fresh == Exec(Compose(middlewares), routes, last.data, StartState(EmptyVals))
    IN last.trace = fresh.trace /\ last.err = fresh.err

\* A dispatch that follows a registration made after an earlier dispatch, and
\* that ran a middleware and a handler.
C3_Witness ==
  /\ IsRoute
  /\ last.wasSet
  /\ last.wasDirty
  /\ Len(EventsOf(last.trace, {"before"})) >= 1
  /\ Len(EventsOf(last.trace, {"handler"})) = 1

\* C4: Register, Match and Use leave the router dirty; a Route on a dirty
\* router, or on one with no cached chain, composes the chain anew, stores it
\* and leaves the router clean; a Route on a clean router with a cached chain
\* reuses that very chain.
C4_DispatchStateMachine ==
  [][ /\ last'.op \in {"Register", "Match", "Use"} => dirty'
      /\ (last'.op = "Route" /\ (dirty \/ ~handlerChain.set)) =>
           /\ last'.rebuilt
           /\ handlerChain' = NewChain(middlewares)
           /\ ~dirty'
      /\ (last'.op = "Route" /\ ~dirty /\ handlerChain.set) =>
           /\ ~last'.rebuilt
           /\ handlerChain' = handlerChain
           /\ ~dirty' ]_vars

\* A Route on a clean router reused the cached chain of two middlewares.
C4_Witness ==
  /\ IsRoute
  /\ last.wasSet
  /\ ~last.wasDirty
  /\ ~last.rebuilt
  /\ Len(middlewares) = 2

\* C5: the context a Route hands to its chain has an empty value store, also
\* when the instance comes from the pool after a dispatch that called Set.
C5_NoLeakBetweenDispatches ==
  /\ IsRoute => DOMAIN last.startVals = {}
  /\ \A c \in ctxIdle : DOMAIN ctxVals[c] = {}

\* A Route ran on a pooled instance on which an earlier dispatch had Set keys.
C5_Witness ==
  /\ IsRoute
  /\ last.reused
  /\ last.touchedBefore

\* C7: when every middleware returns what next returned, Route returns the
\* matched handler's error unmodified; and Route always returns the buffer
\* reference it was given.
C7_ErrorAndBufferReturned ==
  IsRoute =>
    /\ last.retBuf = last.buf
    /\ (AllCallNext /\ FirstMatch(routes, last.data) > 0) =>
         last.err = HandlerErr(routes[FirstMatch(routes, last.data)].handler)

\* A handler's error came back through a middleware.
C7_Witness ==
  /\ IsRoute
  /\ AllCallNext
  /\ Len(middlewares) >= 1
  /\ last.err = "errH2"
  /\ last.retBuf = last.buf

-----------------------------------------------------------------------------
(* Properties of concurrent dispatch (checked under SpecRace) *)

\* The router fields goroutine g's next step reads, and those it writes.
ReadsOf(g) ==
  CASE gpc[g] = "readDirty" -> {"dirty"}
    [] gpc[g] \in {"readChain", "loadChain"} -> {"handlerChain"}
    [] gpc[g] = "compose" -> {"middlewares"}
    [] gpc[g] = "exec" -> {"routes"}
    [] OTHER -> {}

WritesOf(g) ==
  CASE gpc[g] = "storeChain" -> {"handlerChain"}
    [] gpc[g] = "storeDirty" -> {"dirty"}
    [] OTHER -> {}

\* C6: once the setup is over, no Route call writes a field of the router
\* while another Route call is reading or writing that field.
C6_NoUnsynchronizedWrite ==
  \A g \in Gs, h \in Gs :
    g # h => WritesOf(g) \cap (ReadsOf(h) \cup WritesOf(h)) = {}

-----------------------------------------------------------------------------
(* Properties of the buffer pool (checked under SpecPool) *)

\* C9: every buffer Acquire returns has Len() = 0, and a released buffer is
\* reset before it enters the idle set.
C9_AcquiredBufferEmpty ==
  /\ \A p \in Ps : ppc[p] = "acquired" => Len(bufData[pheld[p]]) = 0
  /\ \A b \in bufIdle : Len(bufData[b]) = 0

\* Acquire has just returned an instance that an earlier holder wrote to.
C9_Witness ==
  \E p \in Ps : ppc[p] = "acquired" /\ pheld[p] \in bufUsed

\* C10: no buffer instance is held by two goroutines at the same time, and a
\* held instance is not in the idle set for a third to acquire.
C10_NoSharedBuffer ==
  \A p \in Ps :
    pheld[p] # 0 =>
      /\ pheld[p] \notin bufIdle
      /\ \A q \in Ps \ {p} : pheld[q] # pheld[p]

\* Two goroutines hold buffers at once, one of them a re-acquired instance.
C10_Witness ==
  /\ \A p \in Ps : pheld[p] # 0
  /\ \E p \in Ps : ppc[p] = "acquired" /\ pheld[p] \in bufUsed

\* C24: Release(nil) puts no nil entry into the idle set, and every Acquire
\* after it returns a non-nil, empty buffer.
C24_ReleaseNilIsHarmless ==
  last.op = "ReleaseNil" =>
    /\ 0 \notin bufIdle
    /\ bufIdle \subseteq bufBorn
    /\ \A p \in Ps : ppc[p] = "acquired" =>
          pheld[p] \in BufIds /\ Len(bufData[pheld[p]]) = 0

\* After a Release(nil) a goroutine has acquired a buffer that was written
\* to and released before.
C24_Witness ==
  /\ last.op = "ReleaseNil"
  /\ \E p \in Ps : ppc[p] = "acquired" /\ pheld[p] \in bufUsed

\* C25: Acquire is never blocked: a goroutine that holds nothing can always
\* acquire; with an empty idle set the buffer it gets is a new, empty
\* instance; and the buffers held at one time are distinct instances.
C25_AcquireNeverBlocks ==
  /\ [](\A p \in Ps : ppc[p] = "idle" => BufGetChoices # {})
  /\ [](\A p \in Ps, q \in Ps :
          (p # q /\ pheld[p] # 0 /\ pheld[q] # 0) => pheld[p] # pheld[q])
  /\ [][\A p \in Ps :
          (ppc[p] = "idle" /\ ppc'[p] = "acquired") =>
            /\ pheld'[p] \in BufIds
            /\ bufIdle = {} =>
                 /\ pheld'[p] \notin bufBorn
                 /\ pheld'[p] \notin bufUsed
                 /\ Len(bufData'[pheld'[p]]) = 0]_vars

\* With the idle set empty and one buffer held, a second goroutine has
\* acquired a buffer nobody used before.
C25_Witness ==
  /\ bufIdle = {}
  /\ \A p \in Ps : pheld[p] # 0
  /\ \E p \in Ps : ppc[p] = "acquired" /\ pheld[p] \notin bufUsed

-----------------------------------------------------------------------------
(* Properties of the context package (checked under SpecContexts) *)

\* C11: whatever the history of contextPool, also when the instance reused
\* was put back still holding entries, the context NewContext(parent, buf)
\* returns has an empty value store, buf as its buffer and parent as its
\* parent scope (the background scope when parent is nil), and is not idle.
C11_NewContextIsClean ==
  last.op = "NewContext" =>
    /\ Values(last.ctx) = EmptyVals
    /\ ctxBuf[last.ctx] = last.buf
    /\ last.parent # Nil => ctxParent[last.ctx] = last.parent
    /\ last.parent = Nil => ctxParent[last.ctx] = "background"
    /\ last.ctx \in Held

\* A NewContext that reused an instance put back with entries in its map.
C11_Witness == last.op = "NewContext" /\ last.hadEntries

\* Two instances of which one was forked from the other.
ForkPair(x, y) == ctxForkOf[x] = y \/ ctxForkOf[y] = x

\* A Set or Delete on one instance of a fork pair leaves the other's store.
SetIsLocal ==
  last'.op \in {"Set", "Delete"} =>
    \A y \in ctxBorn \ {last'.ctx} :
      ForkPair(last'.ctx, y) => ctxVals'[ctxMap'[y]] = Values(y)

\* A fork step leaves the receiver's store, buffer and parent scope.
ForkKeepsReceiver ==
  /\ ctxVals'[ctxMap'[last'.ctx]] = Values(last'.ctx)
  /\ ctxBuf'[last'.ctx] = ctxBuf[last'.ctx]
  /\ ctxParent'[last'.ctx] = ctxParent[last'.ctx]

\* C13: Fork() gives a child whose store equals the receiver's at that time
\* and whose buffer is the receiver's buffer (the same reference); the call
\* leaves the receiver's store, buffer and parent scope unchanged; and a later
\* Set or Delete on either of the two is invisible to the other.
C13_ForkIsIndependentCopy ==
  [][/\ last'.op = "Fork" =>
          /\ ctxVals'[ctxMap'[last'.child]] = Values(last'.ctx)
          /\ ctxBuf'[last'.child] = ctxBuf[last'.ctx]
          /\ ForkKeepsReceiver
     /\ SetIsLocal]_vars

\* A Set on a forked child, sharing its parent's buffer, after which the
\* child's store differs from the non-empty store of the parent it came from.
C13_Witness ==
  /\ last.op = "Set"
  /\ ctxForkOf[last.ctx] # 0
  /\ ctxForkOf[last.ctx] \in Held
  /\ ctxBuf[last.ctx] = ctxBuf[ctxForkOf[last.ctx]]
  /\ DOMAIN Values(ctxForkOf[last.ctx]) # {}
  /\ Values(last.ctx) # Values(ctxForkOf[last.ctx])

\* C14: ForkWithBuffer(b) gives a child whose buffer is b and whose store is a
\* copy of the receiver's; the call leaves the receiver's buffer, store and
\* parent scope unchanged, and so does a later Delete or Set on the child.
C14_ForkWithBufferIsIndependent ==
  [][/\ last'.op = "ForkWithBuffer" =>
          /\ ctxBuf'[last'.child] = last'.buf
          /\ ctxVals'[ctxMap'[last'.child]] = Values(last'.ctx)
          /\ ForkKeepsReceiver
     /\ (last'.op \in {"Set", "Delete"} /\ ctxForkOf[last'.ctx] # 0) =>
          /\ ctxVals'[ctxMap'[ctxForkOf[last'.ctx]]] = Values(ctxForkOf[last'.ctx])
          /\ ctxBuf'[ctxForkOf[last'.ctx]] = ctxBuf[ctxForkOf[last'.ctx]]]_vars

\* A Delete on a child made by ForkWithBuffer with a buffer other than its
\* parent's: the parent still holds the entry and its own buffer.
C14_Witness ==
  /\ last.op = "Delete"
  /\ ctxForkOf[last.ctx] # 0
  /\ ctxForkOf[last.ctx] \in Held
  /\ ctxBuf[last.ctx] # ctxBuf[ctxForkOf[last.ctx]]
  /\ ctxBuf[ctxForkOf[last.ctx]] # Nil
  /\ DOMAIN Values(last.ctx) = {}
  /\ DOMAIN Values(ctxForkOf[last.ctx]) # {}

-----------------------------------------------------------------------------
(* Properties of Route's context handling (checked under SpecPanic) *)

HasEvent(trace, ev, id) == \E j \in 1..Len(trace) : trace[j].ev = ev /\ trace[j].id = id

\* C12: when the chain of a Route call returns, with or without an error,
\* the dispatch context is back in the pool with an empty value store and no
\* buffer or parent reference, and the caller's buffer holds the bytes it held
\* before the call and is the buffer returned.
C12_ContextResetBufferKept ==
  last.op = "Route" =>
    /\ last.ctx \in ctxIdle
    /\ ctxVals[last.ctx] = EmptyVals
    /\ ctxBuf[last.ctx] = Nil
    /\ ctxParent[last.ctx] = Nil
    /\ last.dataAfter = last.data
    /\ last.retBuf = last.buf

\* A Route that returned an error after its handler had stored a key and read
\* a buffer holding bytes.
C12_Witness ==
  /\ last.op = "Route"
  /\ last.err = "errH2"
  /\ HasEvent(last.trace, "handler", "h2")
  /\ Len(last.data) > 0
  /\ last.ctx \in ctxIdle


RecoveryOutermost == Len(middlewares) > 0 /\ middlewares[1] = RecoveryMw

\* C19: with RecoveryMiddleware registered first (outermost), a panic of the
\* matched handler or of an inner middleware does not leave Route: Route
\* returns, with the caller's buffer (and a nil error when a panic was
\* recovered), and the dispatch context is reset and back in the pool.
C19_RecoveredPanicReturns ==
  (last.op \in {"Route", "RoutePanic"} /\ RecoveryOutermost) =>
    /\ last.op = "Route"
    /\ last.retBuf = last.buf
    /\ HasEvent(last.trace, "recovered", RecoveryMw) => last.err = NoErr
    /\ last.ctx \in ctxIdle
    /\ ctxVals[last.ctx] = EmptyVals
    /\ ctxBuf[last.ctx] = Nil
    /\ ctxParent[last.ctx] = Nil

\* A Route whose matched handler panicked under an outermost recovery
\* middleware and an inner middleware that had stored a key.
C19_Witness ==
  /\ last.op = "Route"
  /\ RecoveryOutermost
  /\ HasEvent(last.trace, "before", "mA")
  /\ HasEvent(last.trace, "handler", "hP")
  /\ HasEvent(last.trace, "recovered", RecoveryMw)

-----------------------------------------------------------------------------
(* Properties of routes registered with Match (checked under SpecMatch) *)

\* data = p followed by some bytes; some bytes followed by p; p somewhere.
StartsWith(data, p) == \E n \in 0..Len(data) : data = p \o SubSeq(data, n + 1, Len(data))

EndsWith(data, p) == \E n \in 0..Len(data) : data = SubSeq(data, 1, n) \o p

Includes(data, p) ==
  \E i \in 0..Len(data), j \in 0..Len(data) :
    i <= j /\ data = SubSeq(data, 1, i) \o p \o SubSeq(data, j + 1, Len(data))

\* The tag of a pattern, in the sense of the doc comment of Match.
TagOf(pattern) ==
  CASE StartsWith(pattern, TagPrefix) -> TagPrefix
    [] StartsWith(pattern, TagSuffix) -> TagSuffix
    [] StartsWith(pattern, TagContains) -> TagContains
    [] OTHER -> <<>>

IsBare(pattern) == TagOf(pattern) = <<>>

\* What the doc comment of Match says a pattern selects: the tag names the
\* comparison and is not part of the bytes compared.
DslSelects(pattern, data) ==
  LET x == SubSeq(pattern, Len(TagOf(pattern)) + 1, Len(pattern))
  IN CASE TagOf(pattern) = TagSuffix -> EndsWith(data, x)
       [] TagOf(pattern) = TagContains -> Includes(data, x)
       [] OTHER -> StartsWith(data, x)

\* Entry i's matcher was evaluated, and entry i's handler ran, in the last Route.
Evaluated(i) == \E j \in 1..Len(last.trace) : last.trace[j].ev = "match" /\ last.trace[j].i = i

Fired(i) == \E j \in 1..Len(last.trace) : last.trace[j].ev = "handler" /\ last.trace[j].i = i

\* C15: a route registered with Match(p, h) for a bare string p is a prefix
\* route: whenever a dispatch evaluates it, h runs exactly when the payload
\* starts with the bytes of p, and never for a payload shorter than p.
C15_MatchIsPrefixRoute ==
  last.op = "Route" =>
    \A i \in 1..Len(routes) :
      (Evaluated(i) /\ IsBare(routes[i].matcher.pat)) =>
        /\ Fired(i) <=> StartsWith(last.data, routes[i].matcher.pat)
        /\ Len(last.data) < Len(routes[i].matcher.pat) => ~Fired(i)

\* A two-byte bare pattern firing for a longer payload that starts with it.
C15_Witness ==
  /\ last.op = "Route"
  /\ Len(routes) > 0
  /\ routes[1].matcher.pat = <<1, 2>>
  /\ last.data = <<1, 2, 1>>
  /\ Fired(1)

\* C16: Match supports the documented pattern forms: whenever a dispatch
\* evaluates a route registered with Match(p, h), h runs exactly when the
\* payload starts with X for p = "/prefix/X", ends with X for "/suffix/X",
\* contains X for "/contains/X" (and starts with p for a bare p).
C16_MatchSupportsDsl ==
  last.op = "Route" =>
    \A i \in 1..Len(routes) :
      Evaluated(i) => (Fired(i) <=> DslSelects(routes[i].matcher.pat, last.data))

-----------------------------------------------------------------------------
(* Properties of the matchers (checked under SpecMatchers) *)

\* C17: for every pattern and payload over the alphabet, PrefixMatcher,
\* SuffixMatcher and ContainsMatcher return exactly "starts with", "ends
\* with" and "contains"; the empty pattern matches every payload, the empty
\* one included, and a payload shorter than the pattern never matches.
C17_MatchersExact ==
  (last.op = "Match" /\ last.matcher.kind # "match") =>
    /\ last.matcher.kind = "prefix" => (last.result <=> StartsWith(last.data, last.matcher.pat))
    /\ last.matcher.kind = "suffix" => (last.result <=> EndsWith(last.data, last.matcher.pat))
    /\ last.matcher.kind = "contains" => (last.result <=> Includes(last.data, last.matcher.pat))
    /\ last.matcher.pat = <<>> => last.result
    /\ Len(last.data) < Len(last.matcher.pat) => ~last.result

\* A SuffixMatcher with a non-empty pattern accepting a payload that does not
\* start with the pattern.
C17_Witness ==
  /\ last.op = "Match"
  /\ last.matcher.kind = "suffix"
  /\ last.matcher.pat # <<>>
  /\ last.result
  /\ ~StartsWith(last.data, last.matcher.pat)

\* C18: evaluating a built-in matcher, or the matcher Match derives, changes
\* neither the bytes or length of the buffer nor the context's value store,
\* buffer reference or parent; and evaluating the same matcher again on the
\* unchanged context gives the same result.
C18_MatcherEvalIsPure ==
  [][last'.op = "Match" =>
       /\ bufData' = bufData
       /\ ctxVals' = ctxVals
       /\ ctxBuf' = ctxBuf
       /\ ctxParent' = ctxParent
       /\ last'.again => last'.result = last.result]_vars

\* A second evaluation of a matcher that accepts, on a context holding an
\* entry and a non-empty buffer.
C18_Witness ==
  /\ last.op = "Match"
  /\ last.again
  /\ last.result
  /\ last.matcher.pat # <<>>
  /\ DOMAIN ctxVals[1] # {}
  /\ bufData["bufA"] = last.data

-----------------------------------------------------------------------------
(* The parent scope of a dispatch (checked under Spec) *)

\* C20: the parent scope passed to Route is the one handlers and middleware
\* observe through the context (the background scope for a nil parent), so
\* Err() on the context is the parent's Err(); and the engine does not act on
\* it: with a parent cancelled before the call, the matchers are evaluated in
\* order up to the first match and that entry's handler runs and its result
\* is what Route returns (every middleware calling next).
C20_ParentObservedNotEnforced ==
  IsRoute =>
    /\ last.seenParent = (IF last.parent = Nil THEN "background" ELSE last.parent)
    /\ last.seenErr = (IF last.parent = "cancelledCtx" THEN "context canceled" ELSE NoErr)
    /\ (last.parent = "cancelledCtx" /\ AllCallNext) =>
         LET k == FirstMatch(routes, last.data)
         IN /\ k > 0 =>
                 /\ EventsOf(last.trace, {"match", "handler"}) = ScanEvents(routes, k)
                 /\ last.err = HandlerErr(routes[k].handler)
            /\ k = 0 =>
                 /\ EventsOf(last.trace, {"match", "handler"})
                      = [i \in 1..Len(routes) |-> Event("match", i, routes[i].matcher.kind)]
                 /\ last.err = NoErr

\* A Route under a cancelled parent whose second entry matched: its handler
\* ran, inside a middleware, and observed the cancellation.
C20_Witness ==
  /\ IsRoute
  /\ last.parent = "cancelledCtx"
  /\ last.seenErr = "context canceled"
  /\ Len(middlewares) > 0
  /\ AllCallNext
  /\ FirstMatch(routes, last.data) = 2
  /\ Fired(2)

-----------------------------------------------------------------------------
(* Properties of buffers (checked under SpecTruncate, SpecSlices, SpecClones) *)

\* A step that is a call of Truncate on buffer b.
TruncateStep(b) == last'.op = "Truncate" /\ last'.b = b

\* C21 as stated: Truncate(n) on a buffer of length L never panics; for
\* n >= L it changes neither content, length nor capacity, and for every
\* n < L the length becomes exactly n and the first n bytes are kept.
C21_TruncateTotal ==
  [][\A b \in DOMAIN views :
       TruncateStep(b) =>
         /\ ~last'.panicked
         /\ IF last'.a >= views[b].len
            THEN views' = views /\ arrays' = arrays
            ELSE /\ views'[b].len = last'.a
                 /\ (Bytes(views[b]))' = SubSeq(Bytes(views[b]), 1, last'.a)]_vars

\* C21 amended: for n >= L Truncate(n) is a no-op (content, length and
\* capacity unchanged, no panic); for 0 <= n < L the length becomes exactly n,
\* the first n bytes are kept and the capacity is unchanged; for n < 0 the
\* call panics and leaves the buffer as it was.
C21_TruncateShortens ==
  [][\A b \in DOMAIN views :
       TruncateStep(b) =>
         /\ last'.e = views[b].len
         /\ last'.a >= views[b].len =>
              ~last'.panicked /\ views' = views /\ arrays' = arrays
         /\ (0 <= last'.a /\ last'.a < views[b].len) =>
              /\ ~last'.panicked
              /\ views'[b].len = last'.a
              /\ views'[b].cap = views[b].cap
              /\ (Bytes(views[b]))' = SubSeq(Bytes(views[b]), 1, last'.a)
              /\ arrays' = arrays
         /\ last'.a < 0 =>
              last'.panicked /\ views' = views /\ arrays' = arrays]_vars

\* A buffer of two bytes has been truncated to its first byte.
C21_Witness ==
  /\ last.op = "Truncate" /\ ~last.panicked
  /\ last.e = 2 /\ last.a = 1
  /\ Len(Bytes(views[last.b])) = 1 /\ Bytes(views[last.b])[1] # 0

\* C22: for 0 <= a <= b <= L, Slice(a, b) does not panic and returns a view
\* whose bytes are the source bytes [a, b), leaving the source as it was; no
\* later Write / WriteString on the source changes the view's length or bytes.
C22_SliceIsStableView ==
  [][/\ last'.op = "Slice" =>
          \A end \in 0..views[1].len : \A start \in 0..end :
            Slice(1, start, end) =>
            /\ ~last'.panicked
            /\ views'[2].len = end - start
            /\ (Bytes(views[2]))' = SubSeq(Bytes(views[1]), start + 1, end)
            /\ views'[1] = views[1]
            /\ (Bytes(views[1]))' = Bytes(views[1])
     /\ (last'.op = "Write" /\ last'.b = 1 /\ Len(views) = 2 /\ views[2].from = 1) =>
            /\ views'[2] = views[2]
            /\ (Bytes(views[2]))' = Bytes(views[2])]_vars

\* The source has been written to in place, in the array it shares with a
\* slice of its first byte.
C22_Witness ==
  /\ last.op = "Write" /\ last.b = 1
  /\ Len(views) = 2 /\ views[2].from = 1
  /\ views[2].arr = views[1].arr
  /\ views[2].len = 1
  /\ views[1].len > views[2].off + views[2].len

\* C23: Clone() returns a buffer with the same bytes and storage of its own,
\* and leaves the original as it was; afterwards no Write, Truncate or Reset
\* on the original changes the clone, and none on the clone changes the
\* original.
C23_CloneIsIndependent ==
  [][/\ last'.op = "Clone" =>
          /\ (Bytes(views[2]))' = Bytes(views[1])
          /\ views'[2].arr # views'[1].arr
          /\ views'[1] = views[1]
          /\ (Bytes(views[1]))' = Bytes(views[1])
     /\ last'.op \in {"Write", "Truncate", "Reset"} =>
          \A c \in DOMAIN views \ {last'.b} :
             (views[c].cloneOf = last'.b \/ views[last'.b].cloneOf = c) =>
               /\ views'[c] = views[c]
               /\ (Bytes(views[c]))' = Bytes(views[c])]_vars

\* After Clone the original was reset and written to again: it now holds a
\* byte that differs from the clone's.
C23_Witness ==
  /\ last.op = "Write" /\ last.b = 1
  /\ Len(views) = 2 /\ views[2].cloneOf = 1
  /\ views[1].len = 1 /\ views[2].len = 1
  /\ Bytes(views[1]) # Bytes(views[2])

-----------------------------------------------------------------------------
(* Properties of the value store (checked under SpecStore) *)

\* The key holds a value of the type the getter asks for.
HoldsType(vals, type, key) == key \in DOMAIN vals /\ vals[key].type = type

\* C26: the typed getters are total: for every key and every stored value a
\* getter returns (v, true) exactly when the key holds a value of its type,
\* and (zero value, false) otherwise, without panicking and without changing
\* the value store.
C26_TypedGettersTotal ==
  [][last'.op = "GetT" =>
       /\ ~last'.panicked
       /\ ctxVals' = ctxVals
       /\ last'.ok = HoldsType(Values(1), last'.type, last'.key)
       /\ last'.res = IF HoldsType(Values(1), last'.type, last'.key)
                      THEN Values(1)[last'.key]
                      ELSE ZeroValue(last'.type)]_vars

\* The same for the keys a map can hash.
C26_TypedGettersTotalOnHashable ==
  [][(last'.op = "GetT" /\ Hashable(last'.key)) =>
       /\ ~last'.panicked
       /\ ctxVals' = ctxVals
       /\ last'.ok = HoldsType(Values(1), last'.type, last'.key)
       /\ last'.res = IF HoldsType(Values(1), last'.type, last'.key)
                      THEN Values(1)[last'.key]
                      ELSE ZeroValue(last'.type)]_vars

\* C27: the value store behaves as a map under Set and Delete: after
\* Set(k, v), Get(k) is v and every other key reads as before; after
\* Delete(k), Get(k) is nil, k is not stored and every other key reads as
\* before (so Delete of an absent key changes nothing); Get returns what is
\* stored, nil for a key that is not; Keys() lists each stored key once and
\* nothing else.
C27_StoreIsMap ==
  [][/\ \A key \in StoreKeys, value \in StoreValues :
          Set(1, key, value) =>
            /\ GetVal(Values(1)', key) = value
            /\ DOMAIN (Values(1)') = DOMAIN Values(1) \cup {key}
            /\ \A k \in StoreKeys \ {key} :
                 GetVal(Values(1)', k) = GetVal(Values(1), k)
     /\ \A key \in StoreKeys :
          Delete(1, key) =>
            /\ GetVal(Values(1)', key) = NilValue
            /\ DOMAIN (Values(1)') = DOMAIN Values(1) \ {key}
            /\ \A k \in StoreKeys \ {key} :
                 GetVal(Values(1)', k) = GetVal(Values(1), k)
            /\ key \notin DOMAIN Values(1) => ctxVals' = ctxVals
     /\ (last'.op = "Get" /\ ~last'.panicked) =>
          /\ ctxVals' = ctxVals
          /\ last'.res = IF last'.key \in DOMAIN Values(1)
                         THEN Values(1)[last'.key] ELSE NilValue
     /\ last'.op = "Keys" =>
          /\ ctxVals' = ctxVals
          /\ {last'.keys[i] : i \in DOMAIN last'.keys} = DOMAIN Values(1)
          /\ Len(last'.keys) = Cardinality(DOMAIN Values(1))]_vars

\* Keys() has listed the one key left after a Set of two keys and a Delete.
C27_Witness ==
  /\ last.op = "Keys" /\ Len(last.keys) = 1
  /\ DOMAIN Values(1) = {"k2"}
  /\ Values(1)["k2"] = NilValue

-----------------------------------------------------------------------------
(* Properties of middleware chains that stop, and of pipelines (checked     *)
(* under Spec and SpecPipeline)                                              *)

\* The middlewares that return an error without calling next.
Aborting == {"mX", "pX"}

\* The first middleware of the list that does not call next; 0 if all do.
FirstAbort(mws) ==
  IF \A i \in 1..Len(mws) : mws[i] \notin Aborting THEN 0
  ELSE CHOOSE i \in 1..Len(mws) :
         /\ mws[i] \in Aborting
         /\ \A j \in 1..(i - 1) : mws[j] \notin Aborting

\* The events of an onion over mws around a handler that leaves none: the
\* before parts down to the first middleware that stops (or to the last),
\* then the after parts of those that called next, innermost first.
OnionTrace(mws) ==
  LET k == FirstAbort(mws)
      down == IF k = 0 THEN Len(mws) ELSE k
      up == IF k = 0 THEN Len(mws) ELSE k - 1
  IN [i \in 1..down |-> Event("before", 0, mws[i])]
       \o [j \in 1..up |-> Event("after", 0, mws[up + 1 - j])]

OnionErr(mws) == IF FirstAbort(mws) = 0 THEN NoErr ELSE AbortErr

\* C28: every Handle runs the pipeline's middleware list as it is at the
\* call, first added outermost, around a base that does nothing: with an
\* empty list nothing runs and nil is returned; a middleware added since an
\* earlier Handle runs; the error of a middleware that stops is returned.
C28_HandleComposesCurrentList ==
  [][last'.op = "Handle" =>
       /\ last'.trace = OnionTrace(pipelines[last'.ctx].middlewares)
       /\ last'.err = OnionErr(pipelines[last'.ctx].middlewares)
       /\ pipelines[last'.ctx].middlewares = <<>> =>
            last'.trace = <<>> /\ last'.err = NoErr]_vars

\* Handle ran two different middlewares, both calling next.
C28_Witness ==
  /\ last.op = "Handle"
  /\ Len(pipelines[last.ctx].middlewares) = 2
  /\ pipelines[last.ctx].middlewares[1] # pipelines[last.ctx].middlewares[2]
  /\ Len(last.trace) = 4
  /\ last.err = NoErr

\* C29: a call of Router.Pipeline or of a pipeline's Use leaves the route
\* table, the global middleware list, the dirty flag and the cached chain as
\* they were; and a Route runs a pipeline middleware only inside a route
\* handler that calls Handle.
C29_PipelinesIsolated ==
  /\ [][pipelines' # pipelines =>
          UNCHANGED <<routes, middlewares, dirty, handlerChain>>]_vars
  /\ [](IsRoute =>
          \A n \in 1..Len(last.trace) :
            last.trace[n].id \in PipeMws =>
              \E m \in 1..(n - 1) :
                last.trace[m].ev = "handler" /\ last.trace[m].id = PipeHandler)

\* A Route ran a handler that does not call Handle while a pipeline with a
\* middleware exists, and none of its middlewares ran.
C29_Witness ==
  /\ IsRoute
  /\ Len(pipelines) >= 1
  /\ pipelines[1].middlewares # <<>>
  /\ EventsOf(last.trace, {"handler"}) = <<Event("handler", 1, "h1")>>
  /\ \A n \in 1..Len(last.trace) : last.trace[n].id \notin PipeMws

-----------------------------------------------------------------------------
(* Further properties of the buffer manager (checked under SpecPool) *)

\* C31: BufferManager.Release(nil) does not panic, and the pool stays usable
\* for later Acquire calls.
C31_ManagerReleaseNilSafe ==
  /\ last.op # "ManagerReleasePanic"
  /\ 0 \notin bufIdle
  /\ \A p \in Ps : ppc[p] = "idle" => BufGetChoices # {}

-----------------------------------------------------------------------------
(* Further properties of the single-threaded router (checked under Spec) *)

-----------------------------------------------------------------------------
(* Properties of contexts kept in callers' variables (checked under SpecAlias) *)

\* C33: two contexts that NewContext handed out and that are both still in use
\* are distinct instances, after any sequence of NewContext, Route and Reset
\* calls.
C33_LiveContextsNeverAlias ==
  \A u, w \in Callers :
    (u # w /\ callerCtx[u].live /\ callerCtx[w].live)
      => callerCtx[u].ctx # callerCtx[w].ctx

-----------------------------------------------------------------------------
(* Properties of nested dispatch (checked under SpecNested) *)

\* C34: a Route that a handler calls on the same router takes a context that
\* is not the outer dispatch's context: when it returns, the outer context is
\* still in use and has the buffer, the parent scope and the values it had
\* before the nested call.
C34_NestedRouteKeepsOuter ==
  [][(callerCtx[1].live /\ last'.op = "Route") =>
       LET c == callerCtx[1].ctx
       IN /\ last'.ctx # c
          /\ callerCtx' = callerCtx
          /\ c \in ctxBorn' /\ c \notin ctxIdle'
          /\ ctxBuf'[c] = ctxBuf[c]
          /\ ctxParent'[c] = ctxParent[c]
          /\ ctxVals'[c] = ctxVals[c]]_vars

\* A nested Route with another buffer ran a handler on a context taken from
\* the pool and returned, while the outer context holds a value.
C34_Witness ==
  /\ callerCtx[1].live
  /\ last.op = "Route"
  /\ last.reused
  /\ last.buf # ctxBuf[callerCtx[1].ctx]
  /\ EventsOf(last.trace, {"handler"}) # <<>>
  /\ DOMAIN ctxVals[callerCtx[1].ctx] # {}

-----------------------------------------------------------------------------
(* Further properties of forked contexts (checked under SpecContexts) *)

\* C35: a context made by Fork or ForkWithBuffer does not take part in its
\* parent's pool lifecycle: a Reset or Put of the parent instance, a
\* NewContext that takes the parent instance again, and a Set or Delete on it
\* leave the child in use with the buffer, the parent scope and the values it
\* had.
C35_ForkOutlivesParent ==
  [][\A d \in CtxObjs :
       (/\ d \in Held
        /\ ctxForkOf[d] # 0
        /\ last'.ctx = ctxForkOf[d]
        /\ last'.op \in {"Reset", "Put", "NewContext", "Set", "Delete"})
       => /\ d \in ctxBorn' /\ d \notin ctxIdle'
          /\ ctxBuf'[d] = ctxBuf[d]
          /\ ctxParent'[d] = ctxParent[d]
          /\ ctxVals'[ctxMap'[d]] = ctxVals[ctxMap[d]]]_vars

\* The parent instance of a child was reset, taken again by NewContext with
\* another parent scope and given another value; the child has the value,
\* scope and buffer of before.
C35_Witness ==
  \E d \in Held :
    LET c == ctxForkOf[d]
    IN /\ c # 0
       /\ c \in Held
       /\ last.op = "Set" /\ last.ctx = c
       /\ ctxParent[c] = "reqCtx" /\ ctxParent[d] = "background"
       /\ ctxBuf[d] = "bufA"
       /\ "k" \in DOMAIN Values(c) /\ "k" \in DOMAIN Values(d)
       /\ Values(c)["k"] # Values(d)["k"]

-----------------------------------------------------------------------------
(* Further properties of buffer views (checked under SpecSlices) *)

\* C36: after v = src.Slice(a, b) with b < src.Len(), a Write or WriteString
\* on v leaves the bytes and the length of src unchanged.
C36_ViewWriteKeepsSource ==
  [][(/\ last'.op = "Write" /\ last'.b = 2
      /\ Len(views) = 2
      /\ views[2].from = 1
      /\ views[2].off + views[2].len < views[1].off + views[1].len)
     => /\ views'[1].len = views[1].len
        /\ (Bytes(views[1]))' = Bytes(views[1])]_vars

-----------------------------------------------------------------------------
(* Further properties of panicking dispatches (checked under SpecPanic) *)

\* C37: a panic that no middleware recovers leaves Route without a return
\* value and without the dispatch context being put back into the pool; so
\* in every reachable state every context in the pool has no entries, no
\* buffer and no parent scope.
C37_PanicKeepsPoolClean ==
  /\ last.op = "RoutePanic" =>
       /\ last.ctx \notin ctxIdle
       /\ last.retBuf = Nil
  /\ \A c \in ctxIdle :
       /\ ctxVals[c] = EmptyVals
       /\ ctxBuf[c] = Nil
       /\ ctxParent[c] = Nil

\* A dispatch took a context out of the pool, a middleware Set a value on it,
\* and the handler's panic left Route.
C37_Witness ==
  /\ last.op = "RoutePanic"
  /\ last.reused
  /\ last.seenBuf = "bufA"
  /\ EventsOf(last.trace, {"before"}) # <<>>
  /\ HasEvent(last.trace, "handler", "hP")
  /\ last.ctx \notin ctxIdle

-----------------------------------------------------------------------------
(* Route and the registration state (checked under Spec) *)

\* C38: a Route call leaves the route table and the global middleware list as
\* they were, contents and order, whatever the payload and whether the chain
\* was rebuilt or reused; of the router's fields only the cached chain and the
\* dirty flag may change.
C38_RouteKeepsRegistrations ==
  [][last'.op = "Route" =>
       /\ routes' = routes
       /\ middlewares' = middlewares
       /\ pipelines' = pipelines
       /\ last'.rebuilt => (handlerChain' = NewChain(middlewares) /\ ~dirty')
       /\ ~last'.rebuilt => (handlerChain' = handlerChain /\ dirty' = dirty)]_vars

\* A Route call rebuilt the chain of a router with a route and a middleware
\* and ran a handler.
C38_Witness ==
  /\ last.op = "Route"
  /\ last.rebuilt
  /\ Len(routes) >= 1
  /\ Len(middlewares) >= 1
  /\ EventsOf(last.trace, {"handler"}) # <<>>

-----------------------------------------------------------------------------
(* Pipelines and their matcher (checked under SpecPipeline) *)

\* C39 as stated: Handle runs the whole middleware list of the pipeline,
\* whether or not the pipeline's matcher matches the payload.
C39_HandleRunsWholeList ==
  last.op = "Handle" =>
    LET mws == pipelines[last.ctx].middlewares
    IN EventsOf(last.trace, {"before"})
         = [i \in 1..Len(mws) |-> Event("before", 0, mws[i])]

\* C39 amended: Handle does not consult the matcher the pipeline was created
\* with: whether or not it matches the payload, Handle runs the pipeline's
\* middlewares in order down to the first one that returns without calling
\* next (all of them when each calls next) and returns what the chain returns.
C39_HandleIgnoresMatcher ==
  last.op = "Handle" =>
    LET mws == pipelines[last.ctx].middlewares
        k == FirstAbort(mws)
        n == IF k = 0 THEN Len(mws) ELSE k
    IN /\ EventsOf(last.trace, {"before"})
            = [i \in 1..n |-> Event("before", 0, mws[i])]
       /\ last.err = OnionErr(mws)

\* Handle ran both middlewares of a pipeline on a payload that the
\* pipeline's matcher does not match.
C39_Witness ==
  /\ last.op = "Handle"
  /\ ~MatcherMatch(pipelines[last.ctx].matcher, last.data)
  /\ Len(pipelines[last.ctx].middlewares) = 2
  /\ FirstAbort(pipelines[last.ctx].middlewares) = 0
  /\ Len(EventsOf(last.trace, {"before"})) = 2

====
